---------------------------- MODULE Spec2Model ----------------------------
(***************************************************************************)
(* Cloud2FEM: point cloud -> slices -> centroids -> polylines -> polygons  *)
(* -> voxel mesh.  Each pipeline function of Cloud2Polygons.py and         *)
(* Polygons2FEM.py is modelled as a state machine of its own: Init draws   *)
(* the arguments of the call, the actions are the statements and loop      *)
(* iterations of the function, and the specification of the function       *)
(* leaves the variables of the other functions untouched.                  *)
(*                                                                         *)
(* Real numbers are modelled exactly: coordinates are integers in a fixed  *)
(* unit, quotients are kept as fractions <<num, den>> or compared after    *)
(* cross-multiplication, distances are compared through their squares.     *)
(***************************************************************************)
EXTENDS Integers, Sequences, FiniteSets, TLC

VARIABLES
    \* make_zcoords
    zargs,      \* the arguments [a, b, c, d] of the call
    zpc,        \* "call" | "done"
    zout,       \* [kind |-> "return", zcoords |-> <<fraction, ...>>] or [kind |-> "raise", exc |-> name]
    \* make_slices
    sargs,      \* the arguments [zcoords, pcl, thick]
    spc,        \* "loop" | "net" | "done"
    si,         \* number of levels the for loop has processed
    slices,     \* dict: level -> rows of pcl in the band of the level
    invmask,    \* one boolean per row of pcl
    netpcl,     \* rows of pcl outside every band
    \* find_centroids
    cargs,      \* the arguments [minwthick, zcoords, slices]
    cpc,        \* "calib" | "size" | "first" | "next" | "done" | "raised"
    ci,         \* number of levels the for loop has finished
    newtol,     \* the exponent k of newtol = tol * tolincr^k
    empsl,      \* rows of the slice still to be used, as row numbers of slices[z]
    ctrds,      \* dict: level -> None or the chain of centroids <<sum x, sum y, n, level>>,
                \* the centroid being (sum x / n, sum y / n, level)
    cexc,       \* the exception that left find_centroids, if any
    cgroups,    \* history, level -> for each centroid of the chain, the rows of its nearpts
    cstarts,    \* history, level -> the rows taken as stpnt / nearest, in order
    \* make_polylines
    pargs,      \* the arguments [minwthick, zcoords, ctrds]
    ppc,        \* "split" | "length" | "clean" | "done" | "raised"
    pi,         \* number of levels the current for loop has processed
    polys,      \* dict: level -> list of raw polylines
    tolpolyslen, \* threshold on the number of points of a polyline
    cleanpolys, \* dict: level -> list of simplified polylines
    pexc,       \* the exception that left make_polylines, if any
    \* make_polygons
    gargs,      \* the arguments [minwthick, zcoords, cleanpolys]
    gpc,        \* "filter" | "polyline" | "combine" | "done" | "raised"
    gzcoords,   \* the local zcoords, levels without polylines removed
    gi,         \* number of levels the for loop has finished
    gj,         \* number of polylines of the level processed
    newpgon,    \* the local newpgon: unbound, or the last polygon built
    tolsimpl,   \* in units of 0.0002
    pgons,      \* the polygons of the level collected so far
    polygs,     \* dict: level -> MultiPolygon
    invalidpolygons, \* list of levels
    gexc,       \* the exception that left make_polygons, if any
    \* make_mesh
    margs,      \* the arguments [xeldim, yeldim, xmin, ymin, xmax, ymax, zcoords, polygs]
    mpc,        \* "grid" | "raster" | "mesh" | "done" | "raised"
    xngrid,     \* x node grid
    yngrid,     \* y node grid
    elemlist,   \* dict: level -> list of cells <<x index, y index>>, from 0
    tot_elements,
    mz,         \* number of levels the current for loop has finished
    me,         \* number of elements of the level done
    nodeID,
    elID,
    nodelist,   \* the rows <<id, x, y, z>> of the node table written so far
    nrows,      \* number of rows allocated to the node table (-1: still a list)
    elconnect,  \* connectivity of the finished levels
    z_elconnect, \* connectivity of the current level
    ignore,
    zignore,
    mexc,       \* the exception that left make_mesh, if any
    \* export_mesh
    eargs,      \* the arguments [nodelist, elconnect]
    epc,        \* "open" | "nodes" | "elements" | "closed" | "read"
    ei,         \* number of rows of the current table written
    efile,      \* the lines written to the file
    eread,      \* what a reader of the file finds: [nodes, elements]
    \* the edit mode of the main window
    heap,       \* the numpy arrays, by identity: <<[pts, f32], ...>>
    mct_slices, \* mct.slices[z] of the level shown: the identity of its array
    mct_ctrds,  \* mct.ctrds[z]: the identity of its array
    mct_cleanpolys, \* mct.cleanpolys[z]: the list of the identities of its arrays
    emode,      \* "none" | "points" | "centroids" | "polylines"
    polylinesTool,
    pointsTool,
    tempPolylines, \* None (<<>>) or a list of identities
    tempPoints, \* None (0) or the identity of an array
    tempCentroids,
    editInstance, \* the tool objects: [plls] | [pll] | [pts_b]
    entered     \* history: the values of the stored data when edit mode was entered,
                \* how it was left, and the number of clicks handled

varsZ == <<zargs, zpc, zout>>
varsS == <<sargs, spc, si, slices, invmask, netpcl>>
varsC == <<cargs, cpc, ci, newtol, empsl, ctrds, cexc, cgroups, cstarts>>
varsP == <<pargs, ppc, pi, polys, tolpolyslen, cleanpolys, pexc>>
varsG == <<gargs, gpc, gzcoords, gi, gj, newpgon, tolsimpl, pgons, polygs,
           invalidpolygons, gexc>>
varsM == <<margs, mpc, xngrid, yngrid, elemlist, tot_elements, mz, me, nodeID, elID,
           nodelist, nrows, elconnect, z_elconnect, ignore, zignore, mexc>>
varsE == <<eargs, epc, ei, efile, eread>>
varsW == <<heap, mct_slices, mct_ctrds, mct_cleanpolys, emode, polylinesTool, pointsTool,
           tempPolylines, tempPoints, tempCentroids, editInstance, entered>>
vars == <<varsZ, varsS, varsC, varsP, varsG, varsM, varsE, varsW>>

----------------------------------------------------------------------------
(* Helpers.                                                                *)

Range(s) == {s[i] : i \in DOMAIN s}

\* Sequences over S of length lo..hi.
SeqsOf(S, lo, hi) == UNION {[1..n -> S] : n \in lo..hi}

StrictlyIncreasingInts(s) ==
    \A i \in 1..(Len(s) - 1) : s[i] < s[i + 1]

\* Fractions <<num, den>> with den > 0.
FracLt(p, q) == p[1] * q[2] < q[1] * p[2]
FracEq(p, q) == p[1] * q[2] = q[1] * p[2]

\* ceil(n / d) for d > 0.
CeilDiv(n, d) == IF n % d = 0 THEN n \div d ELSE (n \div d) + 1

----------------------------------------------------------------------------
(* make_zcoords(a, b, c, d)                                                *)

MaxZ == 10          \* zmin, zmax range over 0..MaxZ
MaxC == 5           \* count / step range over -1..MaxC

NoArgs == [a |-> 0, b |-> 0, c |-> 0, d |-> 0]
NoOut == [kind |-> "none"]

\* np.linspace(a, b, n): n evenly spaced samples over [a, b], the end point
\* included; n = 1 gives [a], n = 0 gives [], n < 0 raises ValueError.
linspace_noendpoint(a, b, n) ==
    [kind |-> "return",
     zcoords |-> [i \in 1..n |-> <<a * n + (i - 1) * (b - a), n>>]]

linspace(a, b, n) ==
    IF n < 0 THEN [kind |-> "raise", exc |-> "ValueError"]
    ELSE IF n = 0 THEN [kind |-> "return", zcoords |-> <<>>]
    ELSE IF n = 1 THEN [kind |-> "return", zcoords |-> << <<a, 1>> >>]
    ELSE [kind |-> "return",
          zcoords |-> [i \in 1..n |-> <<a * (n - 1) + (i - 1) * (b - a), n - 1>>]]

\* np.arange(a, b, c): ceil((b - a) / c) values a, a + c, ...; none when that
\* is not positive; a zero step raises.
arange(a, b, c) ==
    IF c = 0 THEN [kind |-> "raise", exc |-> "ZeroDivisionError"]
    ELSE LET n == IF c > 0 THEN CeilDiv(b - a, c) ELSE CeilDiv(a - b, -c)
         IN  [kind |-> "return",
              zcoords |-> [i \in 1..(IF n > 0 THEN n ELSE 0) |-> <<a + (i - 1) * c, 1>>]]

\* The body of make_zcoords: with d = 3 (and any other d) no branch binds
\* zcoords, and `return zcoords` raises UnboundLocalError.
make_zcoords(a, b, c, d) ==
    IF d = 1 THEN linspace(a, b, c)
    ELSE IF d = 2 THEN arange(a, b, c)
    ELSE [kind |-> "raise", exc |-> "UnboundLocalError"]

ZArgs == [a : 0..MaxZ, b : 0..MaxZ, c : (-1)..MaxC, d : 1..3]

IdleZ == zargs = NoArgs /\ zpc = "idle" /\ zout = NoOut

\* The call of make_zcoords.
MakeZcoords ==
    /\ zpc = "call"
    /\ zout' = make_zcoords(zargs.a, zargs.b, zargs.c, zargs.d)
    /\ zpc' = "done"
    /\ UNCHANGED zargs

----------------------------------------------------------------------------
(* Claims about make_zcoords.                                              *)

Abs(x) == IF x < 0 THEN -x ELSE x

ZReturned == zpc = "done" /\ zout.kind = "return"

\* lower < upper, and count >= 1 (rule 1) or step > 0 (rule 2).
ZValidConfig ==
    /\ zargs.a < zargs.b
    /\ \/ zargs.d = 1 /\ zargs.c >= 1
       \/ zargs.d = 2 /\ zargs.c > 0

ZStrictlyIncreasing(zs) == \A i \in 1..(Len(zs) - 1) : FracLt(zs[i], zs[i + 1])

\* Equal gaps between consecutive levels.
ZLinearlySpaced(zs) ==
    \A i \in 1..(Len(zs) - 2) :
        (zs[i + 1][1] * zs[i][2] - zs[i][1] * zs[i + 1][2]) * (zs[i + 2][2] * zs[i + 1][2])
      = (zs[i + 2][1] * zs[i + 1][2] - zs[i + 1][1] * zs[i + 2][2]) * (zs[i + 1][2] * zs[i][2])

ZStepRule(zs) ==
    /\ \A i \in DOMAIN zs : FracEq(zs[i], <<zargs.a + (i - 1) * zargs.c, 1>>)
    /\ \A i \in DOMAIN zs : FracLt(zs[i], <<zargs.b, 1>>)

ZInvalidConfig ==
    \/ zargs.d \in {1, 2} /\ zargs.a >= zargs.b
    \/ zargs.d = 1 /\ zargs.c < 1
    \/ zargs.d = 2 /\ zargs.c <= 0

\* C2: on an invalid configuration make_zcoords fails and returns no level
\* set.  (The program defines no InvalidRangeError; the formula accepts any
\* exception as the failure, so that only a returned level set violates it.)
C2_InvalidRangeError ==
    (zpc = "done" /\ ZInvalidConfig) => zout.kind = "raise"

\* C3: with the custom rule (d = 3) make_zcoords returns a level set.
C3_CustomReturns ==
    (zpc = "done" /\ zargs.d = 3) => zout.kind = "return"

----------------------------------------------------------------------------
(* make_slices(zcoords, pcl, thick, npts)                                  *)

MaxSliceZ == 3      \* z of points and of levels range over 0..MaxSliceZ
MaxSliceLevels == 2 \* number of levels
MaxSlicePts == 2    \* number of points of the cloud
MaxThick == 2       \* slice thickness ranges over 1..MaxThick

\* Row i of the cloud is <<x, y, z>>; x is the row number, so every row is
\* told apart from every other, also when two points have the same z.
Clouds ==
    UNION {{[i \in 1..n |-> <<i, 0, zs[i]>>] : zs \in [1..n -> 0..MaxSliceZ]} :
              n \in 1..MaxSlicePts}

LevelSets(maxz, maxn) ==
    {s \in SeqsOf(0..maxz, 1, maxn) : StrictlyIncreasingInts(s)}

SArgs == [zcoords : LevelSets(MaxSliceZ, MaxSliceLevels),
          pcl : Clouds,
          thick : 1..MaxThick]

\* pcl[:, 2] >= z - thick/2 and pcl[:, 2] <= z + thick/2, row by row.
InBand_strict(p, z, thick) ==
    /\ 2 * p[3] > 2 * z - thick
    /\ 2 * p[3] < 2 * z + thick

InBand(p, z, thick) ==
    /\ 2 * p[3] >= 2 * z - thick
    /\ 2 * p[3] <= 2 * z + thick

Mask(pcl, z, thick) == [i \in DOMAIN pcl |-> InBand(pcl[i], z, thick)]

\* pcl[mask, :]
RECURSIVE Rows(_, _)
Rows(pcl, mask) ==
    IF pcl = <<>> THEN <<>>
    ELSE LET n == Len(pcl)
             front == Rows(SubSeq(pcl, 1, n - 1), SubSeq(mask, 1, n - 1))
         IN  IF mask[n] THEN Append(front, pcl[n]) ELSE front

\* invmask *= np.invert(mask)
UpdInvmask_last(inv, mask) == [i \in DOMAIN inv |-> ~mask[i]]

UpdInvmask(inv, mask) == [i \in DOMAIN inv |-> inv[i] /\ ~mask[i]]

IdleS ==
    /\ sargs = [zcoords |-> <<>>, pcl |-> <<>>, thick |-> 0]
    /\ spc = "idle" /\ si = 0 /\ slices = <<>> /\ invmask = <<>> /\ netpcl = <<>>

\* One iteration of `for z in zcoords`.
SliceLevel ==
    /\ spc = "loop"
    /\ si < Len(sargs.zcoords)
    /\ LET z == sargs.zcoords[si + 1]
           mask == Mask(sargs.pcl, z, sargs.thick)
       IN  /\ slices' = [k \in (DOMAIN slices) \cup {z} |->
                            IF k = z THEN Rows(sargs.pcl, mask) ELSE slices[k]]
           /\ invmask' = UpdInvmask(invmask, mask)
    /\ si' = si + 1
    /\ UNCHANGED <<sargs, spc, netpcl>>

\* netpcl = pcl[invmask, :]; return slices, netpcl
SliceNet ==
    /\ spc = "loop"
    /\ si = Len(sargs.zcoords)
    /\ netpcl' = Rows(sargs.pcl, invmask)
    /\ spc' = "done"
    /\ UNCHANGED <<sargs, si, slices, invmask>>

----------------------------------------------------------------------------
(* Claims about make_slices.                                               *)

SInSlice(p, z) == \E j \in DOMAIN slices[z] : slices[z][j] = p

\* Number of times row p occurs in the sequence of rows s.
Occurrences(s, p) == Cardinality({j \in DOMAIN s : s[j] = p})

\* |p.z - z| <= thick / 2
SWithinHalfThick(p, z) == 2 * Abs(p[3] - z) <= sargs.thick

\* C4: for every level z processed and every point p of the cloud, p is in
\* slices[z] if and only if |p.z - z| <= thick/2 (ends included), and it is
\* there once.
C4_SliceContainment ==
    \A z \in DOMAIN slices : \A i \in DOMAIN sargs.pcl :
        /\ SInSlice(sargs.pcl[i], z) <=> SWithinHalfThick(sargs.pcl[i], z)
        /\ Occurrences(slices[z], sargs.pcl[i]) <= 1

\* A finished call in which a slice holds a point lying exactly on the end
\* of its band, and a point of the cloud is outside that band.
C4_Witness ==
    /\ spc = "done"
    /\ \E z \in DOMAIN slices :
          /\ \E j \in DOMAIN slices[z] : 2 * Abs(slices[z][j][3] - z) = sargs.thick
          /\ \E i \in DOMAIN sargs.pcl : ~SInSlice(sargs.pcl[i], z)

\* C5: netpcl holds a point of the cloud exactly once when its z is outside
\* the band of every level, and not at all when it is in some band.
C5_NetCloud ==
    spc = "done" =>
        \A i \in DOMAIN sargs.pcl :
            LET inSome == \E k \in DOMAIN sargs.zcoords :
                              SWithinHalfThick(sargs.pcl[i], sargs.zcoords[k])
            IN  Occurrences(netpcl, sargs.pcl[i]) = (IF inSome THEN 0 ELSE 1)

\* A finished call with two overlapping bands, a point in both of them, and
\* a point outside every band, which netpcl holds.
C5_Witness ==
    /\ spc = "done"
    /\ Len(sargs.zcoords) >= 2
    /\ \E i \in DOMAIN sargs.pcl :
          \A k \in DOMAIN sargs.zcoords : SWithinHalfThick(sargs.pcl[i], sargs.zcoords[k])
    /\ \E i \in DOMAIN sargs.pcl :
          /\ \A k \in DOMAIN sargs.zcoords : ~SWithinHalfThick(sargs.pcl[i], sargs.zcoords[k])
          /\ Occurrences(netpcl, sargs.pcl[i]) = 1

----------------------------------------------------------------------------
(* find_centroids(minwthick, zcoords, slices, tolsl=10, tolpt=2, tol=0.01,  *)
(*                checkpts=0.1, tolincr=1.35)                               *)
(* Lengths are in units of 0.01, so that tol is 1; tolincr is 27/20 and     *)
(* checkpts is 1/10.                                                        *)

tolsl == 10             \* minimum number of points of a slice
tolpt == 2              \* minimum number of points of a centroid
tol == 1                \* base radius, 0.01
tolincrNum == 27        \* tolincr = 1.35 = 27/20
tolincrDen == 20
checkptsDen == 10       \* checkpts = 0.1 = 1/10

MaxCPts == 10           \* a slice has tolsl - 1 .. MaxCPts points

\* The places where the points of a slice lie.
CPlaces == <<  <<0, 0>>, <<2, 1>>, <<5, 0>>  >>

RECURSIVE Pow(_, _)
Pow(b, e) == IF e = 0 THEN 1 ELSE b * Pow(b, e - 1)

RECURSIVE SumOver(_, _)
\* Sum of f[x] over the finite set S.
SumOver(f, S) ==
    IF S = {} THEN 0
    ELSE LET x == CHOOSE y \in S : TRUE IN f[x] + SumOver(f, S \ {x})

\* n1 points at place 1, then n2 at place 2, then n3 at place 3, with the
\* first r of them moved to the end.
SliceOf(n1, n2, n3, r) ==
    LET n == n1 + n2 + n3
        sorted == [i \in 1..n |->
                     IF i <= n1 THEN CPlaces[1]
                     ELSE IF i <= n1 + n2 THEN CPlaces[2] ELSE CPlaces[3]]
    IN  [i \in 1..n |-> sorted[((i - 1 + r) % n) + 1]]

\* Five places far from one another, each with n \div 5 points or one more.
CSparsePlaces == <<  <<0, 0>>, <<3, 0>>, <<0, 3>>, <<3, 3>>, <<6, 0>>  >>

SparseSlice(n) == [i \in 1..n |-> CSparsePlaces[((i - 1) % 5) + 1]]

CSlices ==
    {SparseSlice(n) : n \in (tolsl - 1)..MaxCPts}
    \cup
    {SliceOf(n1, n2, n - n1 - n2, r) :
        <<n, n1, n2, r>> \in
            {q \in ((tolsl - 1)..MaxCPts) \X (0..MaxCPts) \X (0..MaxCPts) \X (0..(MaxCPts - 1)) :
                q[2] + q[3] <= q[1] /\ q[4] < q[1]}}

\* A short slice, one dense place, and two places apart.
CSlicesLater ==
    {SliceOf(3, 0, 0, 0), SliceOf(tolsl, 0, 0, 0), SliceOf(5, 0, 5, 2)}

CArgs ==
    {[minwthick |-> m, zcoords |-> <<0>>, slices |-> (0 :> s)] :
        m \in {2, 3}, s \in CSlices}
    \cup
    {[minwthick |-> 3, zcoords |-> <<0, 1>>, slices |-> (0 :> s) @@ (1 :> t)] :
        s \in CSlicesLater, t \in CSlicesLater}

\* round(n * checkpts), half to even.
RoundTenth(n) ==
    LET q == n \div checkptsDen
        r == n % checkptsDen
    IN  IF 2 * r < checkptsDen THEN q
        ELSE IF 2 * r > checkptsDen THEN q + 1
        ELSE IF q % 2 = 0 THEN q ELSE q + 1

Dist2(p, q) == (p[1] - q[1]) * (p[1] - q[1]) + (p[2] - q[2]) * (p[2] - q[2])

\* dists <= newtol with newtol = tol * tolincr^k, for one pair of points.
\* Dist2 is an integer, so that dist^2 <= newtol^2 is dist^2 <= floor(newtol^2).
Near(p, q, k) ==
    Dist2(p, q) <= (tol * tol * Pow(tolincrNum, 2 * k)) \div Pow(tolincrDen, 2 * k)

\* newtol >= minwthick / tolincr
TolAtCap(k, minwthick) ==
    tol * Pow(tolincrNum, k + 1) >= minwthick * Pow(tolincrDen, k + 1)

\* sumnearpts of one pass of the calibration, for the sampled rows.
SumNearPts(sl, sample, k) ==
    SumOver([c \in sample |-> Cardinality({j \in DOMAIN sl : Near(sl[j], sl[c], k)})],
            sample)

\* The calibration loop (lines 109-125), from newtol = tol * tolincr^k.
RECURSIVE Calibrate(_, _, _, _)
Calibrate(sl, sample, minwthick, k) ==
    IF TolAtCap(k, minwthick) THEN k
    ELSE IF 2 * SumNearPts(sl, sample, k) < 7 * tolpt * Cardinality(sample)
         THEN Calibrate(sl, sample, minwthick, k + 1)
         ELSE k

CurZ == cargs.zcoords[ci + 1]
CurSlice == cargs.slices[CurZ]

\* The rows of the sequence of rows e that are near / not near the point p.
NearRows(e, p, k) == SelectSeq(e, LAMBDA j : Near(CurSlice[j], p, k))
FarRows_keep(e, p, k) == e
FarRows(e, p, k) == SelectSeq(e, LAMBDA j : ~Near(CurSlice[j], p, k))

\* np.delete(e, idx, 0), idx counted from 1 here.
Delete_keep(e, idx) == e
Delete(e, idx) == [j \in 1..(Len(e) - 1) |-> IF j < idx THEN e[j] ELSE e[j + 1]]

\* [nearpts[:, 0].mean(), nearpts[:, 1].mean(), z] as <<sum x, sum y, n, z>>.
Centroid(rows, z) ==
    LET S == Range(rows)
    IN  <<SumOver([j \in S |-> CurSlice[j][1]], S),
          SumOver([j \in S |-> CurSlice[j][2]], S),
          Len(rows), z>>

\* Squared distance of point p to the centroid c, times c[3]^2.
CDist2(p, c) ==
    (c[3] * p[1] - c[1]) * (c[3] * p[1] - c[1]) + (c[3] * p[2] - c[2]) * (c[3] * p[2] - c[2])

\* np.argmin: the first position of e whose point is nearest to c.
ArgMin(e, c) ==
    CHOOSE i \in DOMAIN e :
        /\ \A j \in DOMAIN e : CDist2(CurSlice[e[i]], c) <= CDist2(CurSlice[e[j]], c)
        /\ \A j \in 1..(i - 1) : CDist2(CurSlice[e[j]], c) > CDist2(CurSlice[e[i]], c)

\* d[z] = v on a dict d.
SetKey(d, z, v) == [k \in (DOMAIN d) \cup {z} |-> IF k = z THEN v ELSE d[k]]

SetCtrds(z, v) == SetKey(ctrds, z, v)

\* ctrds[z] = None.  The code never stores an empty chain, so the empty
\* sequence stands for None.
None == <<>>

IdleC ==
    /\ cargs = [minwthick |-> 0, zcoords |-> <<>>, slices |-> <<>>]
    /\ cpc = "idle" /\ ci = 0 /\ newtol = 0 /\ empsl = <<>> /\ ctrds = <<>>
    /\ cexc = "none" /\ cgroups = <<>> /\ cstarts = <<>>

\* `continue` / end of the body of `for z in zcoords`, and the return.
CNextLevel(pcNow) ==
    /\ ci' = ci + 1
    /\ cpc' = IF ci + 1 = Len(cargs.zcoords) THEN "done" ELSE "calib"

\* Lines 106-125: the random subset slcheckpts and the calibration of newtol.
CCalibrate ==
    /\ cpc = "calib"
    /\ \E sample \in SUBSET (DOMAIN CurSlice) :
          /\ Cardinality(sample) = RoundTenth(Len(CurSlice))
          /\ newtol' = Calibrate(CurSlice, sample, cargs.minwthick, 0)
    /\ cpc' = "size"
    /\ empsl' = [j \in DOMAIN CurSlice |-> j]       \* empsl = slices[z][:, [0, 1]]
    /\ cgroups' = SetKey(cgroups, CurZ, <<>>)
    /\ cstarts' = SetKey(cstarts, CurZ, <<>>)
    /\ UNCHANGED <<cargs, ci, ctrds, cexc>>

\* Lines 129-132: a slice of fewer than tolsl points has no centroids.
CTooFew ==
    /\ cpc = "size"
    /\ Len(empsl) < tolsl
    /\ ctrds' = SetCtrds(CurZ, None)
    /\ CNextLevel(cpc)
    /\ UNCHANGED <<cargs, newtol, empsl, cexc, cgroups, cstarts>>

CEnough ==
    /\ cpc = "size"
    /\ Len(empsl) >= tolsl
    /\ cpc' = "first"
    /\ UNCHANGED <<cargs, ci, newtol, empsl, ctrds, cexc, cgroups, cstarts>>

\* Lines 145-148: empsl[0] on an empty empsl raises IndexError, caught.
CFirstExhausted ==
    /\ cpc = "first"
    /\ empsl = <<>>
    /\ ctrds' = SetCtrds(CurZ, None)
    /\ CNextLevel(cpc)
    /\ UNCHANGED <<cargs, newtol, empsl, cexc, cgroups, cstarts>>

\* Lines 135-144: one iteration of the loop that looks for the first centroid.
CFirst ==
    /\ cpc = "first"
    /\ empsl # <<>>
    /\ LET stpnt == empsl[1]
           rest == Tail(empsl)
           nearpts == NearRows(rest, CurSlice[stpnt], newtol)
       IN  /\ cstarts' = SetKey(cstarts, CurZ, Append(cstarts[CurZ], stpnt))
           /\ IF Len(nearpts) < tolpt
              THEN /\ empsl' = rest
                   /\ UNCHANGED <<ctrds, cgroups, cpc>>
              ELSE /\ ctrds' = SetCtrds(CurZ, <<Centroid(nearpts, CurZ)>>)
                   /\ empsl' = FarRows(rest, CurSlice[stpnt], newtol)
                   /\ cgroups' = SetKey(cgroups, CurZ, <<Range(nearpts)>>)
                   /\ cpc' = "next"
    /\ UNCHANGED <<cargs, ci, newtol, cexc>>

\* Line 152: np.argmin of an empty array raises ValueError, caught nowhere.
CNextEmpty ==
    /\ cpc = "next"
    /\ empsl = <<>>
    /\ cpc' = "raised"
    /\ cexc' = "ValueError"
    /\ UNCHANGED <<cargs, ci, newtol, empsl, ctrds, cgroups, cstarts>>

\* Lines 152-165: one iteration of the loop for the following centroids.
CGrow ==
    /\ cpc = "next"
    /\ empsl # <<>>
    /\ LET chain == ctrds[CurZ]
           nearestidx == ArgMin(empsl, chain[Len(chain)])
           nearest == empsl[nearestidx]
           rest == Delete(empsl, nearestidx)
           nearpts == NearRows(rest, CurSlice[nearest], newtol)
           left == FarRows(rest, CurSlice[nearest], newtol)
       IN  /\ cstarts' = SetKey(cstarts, CurZ, Append(cstarts[CurZ], nearest))
           /\ IF Len(nearpts) < tolpt /\ Len(rest) > 0
              THEN /\ empsl' = rest                                  \* continue
                   /\ UNCHANGED <<ctrds, cgroups, cpc, ci>>
              ELSE IF Len(rest) < 1
              THEN /\ empsl' = rest                                  \* break
                   /\ CNextLevel(cpc)
                   /\ UNCHANGED <<ctrds, cgroups>>
              ELSE /\ ctrds' = SetCtrds(CurZ, Append(chain, Centroid(nearpts, CurZ)))
                   /\ empsl' = left
                   /\ cgroups' = SetKey(cgroups, CurZ, Append(cgroups[CurZ], Range(nearpts)))
                   /\ IF Len(left) < 1
                      THEN CNextLevel(cpc)                           \* break
                      ELSE UNCHANGED <<cpc, ci>>
    /\ UNCHANGED <<cargs, newtol, cexc>>

----------------------------------------------------------------------------
(* Claims about find_centroids.                                            *)

\* The mean of the rows g of the slice of level z, as a centroid.
CMeanOf(g, z) ==
    <<SumOver([j \in g |-> cargs.slices[z][j][1]], g),
      SumOver([j \in g |-> cargs.slices[z][j][2]], g),
      Cardinality(g), z>>

\* C6: at every level the chain has one centroid per neighbour group, each
\* the mean of its group; the groups are pairwise disjoint, and no point
\* taken as starting point (stpnt / nearest) is in a group.
C6_DisjointGroups ==
    \A z \in DOMAIN cgroups :
        LET gs == cgroups[z] IN
        /\ \A i \in DOMAIN gs : \A j \in DOMAIN gs : i # j => gs[i] \cap gs[j] = {}
        /\ \A i \in DOMAIN gs : gs[i] \cap Range(cstarts[z]) = {}
        /\ gs # <<>> =>
             /\ z \in DOMAIN ctrds
             /\ Len(ctrds[z]) = Len(gs)
             /\ \A i \in DOMAIN gs : ctrds[z][i] = CMeanOf(gs[i], z)

\* find_centroids has returned a chain of three centroids: three groups and
\* three starting points.
C6_Witness ==
    /\ cpc = "done"
    /\ \E z \in DOMAIN ctrds :
          /\ Len(ctrds[z]) >= 3
          /\ Len(cgroups[z]) >= 3
          /\ Len(cstarts[z]) >= 3

\* C20: a level whose slice has at least tolsl points always finishes with
\* a non-empty chain or with None and the following levels are processed: no
\* exception leaves find_centroids, and when it has returned every level has
\* its entry.
C20_LevelAlwaysFinishes ==
    /\ cpc # "raised"
    /\ cpc = "done" => \A i \in DOMAIN cargs.zcoords : cargs.zcoords[i] \in DOMAIN ctrds

\* The iterations made at the level being processed and the points left in
\* empsl are together at most the points of the slice.
CWithinSlice ==
    cpc \in {"first", "next"} => Len(cstarts[CurZ]) + Len(empsl) <= Len(CurSlice)

\* C29: at every level the loop for the first centroid and the loop for the
\* following centroids end: every iteration (each takes one starting point)
\* leaves empsl with fewer points, so that a slice of n points is finished
\* after at most n iterations, and empsl is empty when the loop for the
\* following centroids ends by a break.
C29_LoopsTerminate ==
    [][/\ (cpc \in {"first", "next"} /\ cstarts' # cstarts) => Len(empsl') < Len(empsl)
       /\ (cpc = "next" /\ cpc' \in {"calib", "done"}) => empsl' = <<>>
       /\ CWithinSlice /\ CWithinSlice']_vars

\* find_centroids has returned after a level whose loops made iterations
\* without a centroid and ended by the break with empsl empty.
C29_Witness ==
    /\ cpc = "done"
    /\ empsl = <<>>
    /\ \E z \in DOMAIN ctrds :
          /\ ctrds[z] # None
          /\ Len(cstarts[z]) > Len(ctrds[z]) + 1

\* C30: every centroid is the mean of a group of at least tolpt points, and
\* a chain of k centroids of a slice of n points has k * (tolpt + 1) <= n.
C30_PointsPerCentroid ==
    \A z \in DOMAIN ctrds :
        LET chain == ctrds[z] IN
        /\ \A i \in DOMAIN chain :
              /\ Cardinality(cgroups[z][i]) >= tolpt
              /\ chain[i] = CMeanOf(cgroups[z][i], z)
        /\ Len(chain) * (tolpt + 1) <= Len(cargs.slices[z])

\* find_centroids has returned a chain of three centroids of a slice of
\* tolsl points, one of them the mean of exactly tolpt points.
C30_Witness ==
    /\ cpc = "done"
    /\ \E z \in DOMAIN ctrds :
          /\ Len(ctrds[z]) = 3
          /\ Len(cargs.slices[z]) = tolsl
          /\ \E i \in DOMAIN ctrds[z] : ctrds[z][i][3] = tolpt

----------------------------------------------------------------------------
(* make_polylines(minwthick, zcoords, ctrds, prcnt=1, minctrd=2,            *)
(*                simpl_tol=0.025)                                          *)
(* Lengths are in units of 0.025, so that simpl_tol is 1.                   *)

prcnt == 1              \* percentile of the polyline lengths
minctrd == 2            \* minimum number of centroids of a polyline
simpl_tol == 1          \* Douglas-Peucker tolerance, 0.025

MaxChain == 4           \* a chain has 1..MaxChain centroids

\* The places of the centroids of a chain.
PPlaces == {<<0, 0>>, <<1, 0>>, <<2, 2>>, <<4, 0>>}

PChains == SeqsOf(PPlaces, 1, MaxChain)

\* Chains of a second level: none, two centroids close by, two walls.
PChainsLater ==
    {None, << <<0, 0>>, <<1, 0>> >>, << <<0, 0>>, <<1, 0>>, <<4, 0>>, <<4, 0>>, <<2, 2>> >>}

PArgs ==
    {[minwthick |-> m, zcoords |-> <<0>>, ctrds |-> (0 :> c)] :
        m \in {2, 3}, c \in PChains \cup {None}}
    \cup
    {[minwthick |-> 2, zcoords |-> <<0, 1>>, ctrds |-> (0 :> c) @@ (1 :> t)] :
        c \in PChainsLater, t \in PChainsLater}

\* tails = np.where(dists >= minwthick): the positions i (from 1) of the
\* chain whose distance to position i + 1 is at least minwthick.
Tails_strict(chain, minwthick) ==
    {i \in 1..(Len(chain) - 1) : Dist2(chain[i], chain[i + 1]) > minwthick * minwthick}

Tails(chain, minwthick) ==
    {i \in 1..(Len(chain) - 1) : Dist2(chain[i], chain[i + 1]) >= minwthick * minwthick}

\* np.split(chain, tails + 1): the pieces of the chain cut after every
\* position of tails.
RECURSIVE Split(_, _, _)
Split(chain, tails, from) ==
    IF \E t \in tails : t >= from
    THEN LET t == CHOOSE u \in tails : u >= from /\ \A v \in tails : v >= from => u <= v
         IN  <<SubSeq(chain, from, t)>> \o Split(chain, tails, t + 1)
    ELSE <<SubSeq(chain, from, Len(chain))>>

\* The numbers of points of all polylines of all levels, as a bag
\* (polyslen); only the sorted values matter to the percentile.
RECURSIVE PolysLen(_, _)
PolysLen(zs, ps) ==
    IF zs = <<>> THEN <<>>
    ELSE (IF zs[1] \in DOMAIN ps
          THEN [j \in DOMAIN ps[zs[1]] |-> Len(ps[zs[1]][j])]
          ELSE <<>>) \o PolysLen(Tail(zs), ps)

\* The k-th smallest entry (k from 1) of a sequence of numbers.
KthSmallest(lens, k) ==
    CHOOSE v \in Range(lens) :
        /\ Cardinality({j \in DOMAIN lens : lens[j] < v}) < k
        /\ Cardinality({j \in DOMAIN lens : lens[j] <= v}) >= k

\* round(x) for x = num / den, den > 0, num >= 0: half to even.
RoundHalfEven(num, den) ==
    LET q == num \div den
        r == num % den
    IN  IF 2 * r < den THEN q
        ELSE IF 2 * r > den THEN q + 1
        ELSE IF q % 2 = 0 THEN q ELSE q + 1

\* round(np.nanpercentile(polyslen, prcnt)), linear interpolation between
\* the order statistics around position (N - 1) * prcnt / 100.
PercentileRounded(lens) ==
    LET n == Len(lens)
        pos == (n - 1) * prcnt          \* in hundredths
        lo == pos \div 100
        fr == pos % 100
        a == KthSmallest(lens, lo + 1)
        b == IF lo + 2 <= n THEN KthSmallest(lens, lo + 2) ELSE a
    IN  RoundHalfEven(100 * a + fr * (b - a), 100)

TooShort_never(poly, tolp) == FALSE

\* len(poly) < minctrd or len(poly) < tolpolyslen / 1.3
\* A nan threshold (-1 here) compares False.
TooShort(poly, tolp) ==
    Len(poly) < minctrd \/ (tolp # -1 /\ 13 * Len(poly) < 10 * tolp)

\* Squared distance of p to the segment a-b as a fraction <<num, den>>.
SegDist2(p, a, b) ==
    LET len2 == Dist2(a, b)
        dot == (p[1] - a[1]) * (b[1] - a[1]) + (p[2] - a[2]) * (b[2] - a[2])
        cross == (b[1] - a[1]) * (p[2] - a[2]) - (b[2] - a[2]) * (p[1] - a[1])
    IN  IF len2 = 0 \/ dot <= 0 THEN <<Dist2(p, a), 1>>
        ELSE IF dot >= len2 THEN <<Dist2(p, b), 1>>
        ELSE <<cross * cross, len2>>

\* Douglas-Peucker between positions i and j of pts: the positions kept.
RECURSIVE DPKeep(_, _, _)
DPKeep(pts, i, j) ==
    IF j <= i + 1 THEN {i, j}
    ELSE LET d(k) == SegDist2(pts[k], pts[i], pts[j])
             far == CHOOSE k \in (i + 1)..(j - 1) :
                        /\ \A l \in (i + 1)..(j - 1) : ~FracLt(d(k), d(l))
                        /\ \A l \in (i + 1)..(k - 1) : FracLt(d(l), d(k))
         IN  IF FracLt(<<simpl_tol * simpl_tol, 1>>, d(far))
             THEN DPKeep(pts, i, far) \cup DPKeep(pts, far, j)
             ELSE {i, j}

\* np.array(LineString(poly).simplify(simpl_tol, preserve_topology=True))
Simplify(poly) ==
    LET keep == DPKeep(poly, 1, Len(poly))
    IN  SelectSeq([k \in DOMAIN poly |-> <<k, poly[k]>>], LAMBDA e : e[1] \in keep)

SimplifiedPts(poly) == LET kp == Simplify(poly) IN [k \in DOMAIN kp |-> kp[k][2]]

\* zcleanpolys of one level: the simplified polylines that are not too short.
RECURSIVE CleanList(_, _)
CleanList(ps, tolp) ==
    IF ps = <<>> THEN <<>>
    ELSE (IF TooShort(ps[1], tolp) THEN <<>> ELSE <<SimplifiedPts(ps[1])>>)
         \o CleanList(Tail(ps), tolp)

\* np.nanpercentile of an empty array is nan.
NaN == -1

PCurZ == pargs.zcoords[pi + 1]

IdleP ==
    /\ pargs = [minwthick |-> 0, zcoords |-> <<>>, ctrds |-> <<>>]
    /\ ppc = "idle" /\ pi = 0 /\ polys = <<>> /\ tolpolyslen = 0
    /\ cleanpolys = <<>> /\ pexc = "none"

\* Lines 187-197: one iteration of the loop that splits the chains; a level
\* whose chain is None raises TypeError, caught, and gets no entry.
PSplit ==
    /\ ppc = "split"
    /\ pi < Len(pargs.zcoords)
    /\ LET chain == pargs.ctrds[PCurZ]
       IN  polys' = IF chain = None THEN polys
                    ELSE SetKey(polys, PCurZ,
                                Split(chain, Tails(chain, pargs.minwthick), 1))
    /\ pi' = pi + 1
    /\ UNCHANGED <<pargs, ppc, tolpolyslen, cleanpolys, pexc>>

PSplitEnd ==
    /\ ppc = "split"
    /\ pi = Len(pargs.zcoords)
    /\ ppc' = "length"
    /\ UNCHANGED <<pargs, pi, polys, tolpolyslen, cleanpolys, pexc>>

\* Lines 201-209 with at least one polyline.
PLength ==
    /\ ppc = "length"
    /\ PolysLen(pargs.zcoords, polys) # <<>>
    /\ tolpolyslen' = PercentileRounded(PolysLen(pargs.zcoords, polys))
    /\ ppc' = "clean"
    /\ pi' = 0
    /\ UNCHANGED <<pargs, polys, cleanpolys, pexc>>

\* Lines 201-209 with no polyline at all: round(nan) raises ValueError
\* where round() of a numpy float gives an int ...
PLengthNanRaises ==
    /\ ppc = "length"
    /\ PolysLen(pargs.zcoords, polys) = <<>>
    /\ ppc' = "raised"
    /\ pexc' = "ValueError"
    /\ UNCHANGED <<pargs, pi, polys, tolpolyslen, cleanpolys>>

\* ... and is nan where it gives a numpy float (numpy before 1.19).
PLengthNan ==
    /\ ppc = "length"
    /\ PolysLen(pargs.zcoords, polys) = <<>>
    /\ tolpolyslen' = NaN
    /\ ppc' = "clean"
    /\ pi' = 0
    /\ UNCHANGED <<pargs, polys, cleanpolys, pexc>>

\* Lines 213-226: one iteration of the loop that filters and simplifies; a
\* level without entry in polys raises KeyError, caught, and gets no entry.
PClean ==
    /\ ppc = "clean"
    /\ pi < Len(pargs.zcoords)
    /\ cleanpolys' = IF PCurZ \in DOMAIN polys
                     THEN SetKey(cleanpolys, PCurZ, CleanList(polys[PCurZ], tolpolyslen))
                     ELSE cleanpolys
    /\ pi' = pi + 1
    /\ UNCHANGED <<pargs, ppc, polys, tolpolyslen, pexc>>

\* Line 227.
PReturn ==
    /\ ppc = "clean"
    /\ pi = Len(pargs.zcoords)
    /\ ppc' = "done"
    /\ UNCHANGED <<pargs, pi, polys, tolpolyslen, cleanpolys, pexc>>

----------------------------------------------------------------------------
(* Claims about make_polylines.                                            *)

C23_AllAtLeastTwo ==
    /\ \A z \in DOMAIN polys : \A j \in DOMAIN polys[z] : Len(polys[z][j]) >= 2
    /\ \A z \in DOMAIN cleanpolys : \A j \in DOMAIN cleanpolys[z] :
          Len(cleanpolys[z][j]) >= 2

\* C23, amended: every polyline of cleanpolys has at least 2 points, and
\* every raw polyline of polys has at least 1 point.
C23_CleanAtLeastTwo ==
    /\ \A z \in DOMAIN polys : \A j \in DOMAIN polys[z] : Len(polys[z][j]) >= 1
    /\ \A z \in DOMAIN cleanpolys : \A j \in DOMAIN cleanpolys[z] :
          Len(cleanpolys[z][j]) >= 2

\* make_polylines has returned: a chain with a gap next to its first
\* centroid gave a raw polyline of one point, which is not in cleanpolys,
\* and a polyline of the same level is in cleanpolys.
C23_Witness ==
    /\ ppc = "done"
    /\ \E z \in DOMAIN polys :
          /\ Len(polys[z]) >= 2
          /\ Len(polys[z][1]) = 1
          /\ z \in DOMAIN cleanpolys
          /\ cleanpolys[z] # <<>>
          /\ Len(cleanpolys[z]) < Len(polys[z])

----------------------------------------------------------------------------
(* make_polygons(minwthick, zcoords, cleanpolys, tolsimpl=0.035)            *)
(* minwthick is in units of 0.01 and tolsimpl in units of 0.0002, so that   *)
(* tolsimpl starts at 175, minwthick / 50 is minwthick itself and           *)
(* minwthick / 2.5 is 20 * minwthick.  The coordinates of the polylines are *)
(* integers, in units of 0.1, which is coordUnit units of tolsimpl; a       *)
(* MultiPolygon is known by the centres of the unit cells it contains.      *)

tolsimpl0 == 175        \* tolsimpl = 0.035
coordUnit == 500        \* a coordinate unit, 0.1, in units of tolsimpl
MaxPolys == 3           \* a level has up to MaxPolys polylines
GGrid == 3              \* polylines lie in [0, GGrid] x [0, GGrid]

\* Two overlapping rectangles, a rectangle apart from both, a bow-tie, three
\* points on a line, and a segment.
GSquare == << <<0, 0>>, <<1, 0>>, <<1, 1>>, <<0, 1>> >>
GWide == << <<0, 0>>, <<2, 0>>, <<2, 1>>, <<0, 1>> >>
GApart == << <<2, 2>>, <<3, 2>>, <<3, 3>>, <<2, 3>> >>
GBowTie == << <<0, 0>>, <<2, 2>>, <<2, 0>>, <<0, 2>> >>
GFlat == << <<0, 0>>, <<1, 0>>, <<2, 0>> >>
GSegment == << <<0, 0>>, <<1, 1>> >>
\* A rectangle whose upper side goes back and forth.
GFold == << <<0, 0>>, <<3, 0>>, <<3, 3>>, <<1, 3>>, <<2, 3>>, <<0, 3>> >>

GShapes == {GSquare, GWide, GApart, GBowTie, GFlat, GSegment, GFold}

GLists == SeqsOf(GShapes, 0, MaxPolys)

GListsLater == {<<GSegment>>, <<GSquare>>, <<GBowTie, GApart>>}

\* An entry of a dict, or no entry for the key.
Entry(l) == [has |-> TRUE, val |-> l]
NoEntry == [has |-> FALSE, val |-> <<>>]
Entries(S) == {Entry(l) : l \in S} \cup {NoEntry}

\* The dict with the keys zs[k] whose vs[k] is an entry.
DictOf(zs, vs) ==
    [z \in {zs[k] : k \in {i \in DOMAIN zs : vs[i].has}} |->
        vs[CHOOSE k \in DOMAIN zs : zs[k] = z].val]

GArgs ==
    {[minwthick |-> m, zcoords |-> <<0>>, cleanpolys |-> DictOf(<<0>>, <<l>>)] :
        m \in {5, 20}, l \in Entries(GLists)}
    \cup
    {[minwthick |-> 20, zcoords |-> <<0, 1>>, cleanpolys |-> DictOf(<<0, 1>>, <<l, t>>)] :
        l \in Entries(GLists), t \in Entries(GListsLater)}

\* zcoords without the levels that have no entry in cleanpolys (lines 246-256).
RemoveMissing(zs, cp) == SelectSeq(zs, LAMBDA z : z \in DOMAIN cp)

\* newpgon before the first assignment.
Unbound == [bound |-> FALSE, ring |-> <<>>]

\* sg.Polygon(polyline): the ring of the polyline; fewer than 3 points raise
\* ValueError.
Convertible(polyline) == Len(polyline) >= 3
Polygon(polyline) == [bound |-> TRUE, ring |-> polyline]

\* Sign of the turn a -> b -> c.
Orient(a, b, c) ==
    LET v == (b[1] - a[1]) * (c[2] - a[2]) - (b[2] - a[2]) * (c[1] - a[1])
    IN  IF v > 0 THEN 1 ELSE IF v < 0 THEN -1 ELSE 0

Min2(x, y) == IF x < y THEN x ELSE y
Max2(x, y) == IF x > y THEN x ELSE y

\* p lies on the closed segment a-b.
OnSegment(a, b, p) ==
    /\ Orient(a, b, p) = 0
    /\ Min2(a[1], b[1]) <= p[1] /\ p[1] <= Max2(a[1], b[1])
    /\ Min2(a[2], b[2]) <= p[2] /\ p[2] <= Max2(a[2], b[2])

\* The closed segments a-b and c-d have a point in common.
SegsMeet(a, b, c, d) ==
    \/ /\ Orient(a, b, c) # Orient(a, b, d)
       /\ Orient(c, d, a) # Orient(c, d, b)
    \/ OnSegment(a, b, c) \/ OnSegment(a, b, d)
    \/ OnSegment(c, d, a) \/ OnSegment(c, d, b)

\* The vertices of a ring without repeated consecutive points and without
\* the closing point.
RECURSIVE NoRepeats(_)
NoRepeats(r) ==
    IF Len(r) <= 1 THEN r
    ELSE IF r[1] = r[2] THEN NoRepeats(Tail(r))
    ELSE <<r[1]>> \o NoRepeats(Tail(r))

RingVertices(r) ==
    LET d == NoRepeats(r)
    IN  IF Len(d) >= 2 /\ d[1] = d[Len(d)] THEN SubSeq(d, 1, Len(d) - 1) ELSE d

\* newpgon.is_valid for a polygon without holes: the ring has three
\* vertices or more, edges that are not neighbours do not meet, and
\* neighbouring edges meet in their common vertex only.
IsValidRing(r) ==
    LET v == RingVertices(r)
        n == Len(v)
        nx(i) == (i % n) + 1
    IN  /\ n >= 3
        /\ \A i \in 1..n : \A j \in (i + 1)..n :
              IF nx(i) = j
              THEN ~OnSegment(v[i], v[j], v[nx(j)]) /\ ~OnSegment(v[j], v[nx(j)], v[i])
              ELSE IF nx(j) = i
              THEN ~OnSegment(v[j], v[i], v[nx(i)]) /\ ~OnSegment(v[i], v[nx(i)], v[j])
              ELSE ~SegsMeet(v[i], v[nx(i)], v[j], v[nx(j)])

is_valid(pg) == IsValidRing(pg.ring)

\* The centre of the unit cell <<i, j>>, (i + 1/2, j + 1/2), is inside the
\* ring: an odd number of edges cross the ray from the centre to the right.
CellInRing(cell, r) ==
    LET v == RingVertices(r)
        n == Len(v)
        px == 2 * cell[1] + 1
        py == 2 * cell[2] + 1
        crosses(a, b) ==
            /\ (2 * a[2] < py) # (2 * b[2] < py)
            /\ LET lo == IF a[2] < b[2] THEN a ELSE b
                   hi == IF a[2] < b[2] THEN b ELSE a
               IN  (hi[1] - lo[1]) * (py - 2 * lo[2]) - (hi[2] - lo[2]) * (px - 2 * lo[1]) > 0
    IN  Cardinality({i \in 1..n : crosses(v[i], v[(i % n) + 1])}) % 2 = 1

GCells == (0..(GGrid - 1)) \X (0..(GGrid - 1))

CellsOf(pg) == {c \in GCells : CellInRing(c, pg.ring)}

\* The union, in place of the symmetric difference.
SymDiff_union(A, B) == A \cup B

\* A /\triangle B on sets of cell centres.
SymDiff(A, B) == (A \ B) \cup (B \ A)

\* temp = pgons[0]; temp = temp.symmetric_difference(pgons[j + 1]) ...
RECURSIVE FoldSymDiff(_, _)
FoldSymDiff(temp, rest) ==
    IF rest = <<>> THEN temp
    ELSE FoldSymDiff(SymDiff(temp, CellsOf(rest[1])), Tail(rest))

\* The while loop of lines 270-288 on a polygon that is not valid: tolsimpl
\* grows by minwthick / 50 until it reaches minwthick / 2.5; the simplified
\* polygon that newpgon.simplify returns is dropped, so newpgon stays as it
\* is and the loop ends with isvalid = 0.
RECURSIVE RaiseTol(_, _)
RaiseTol(t, minwthick) ==
    IF t >= 20 * minwthick THEN t ELSE RaiseTol(t + minwthick, minwthick)

\* Douglas-Peucker between positions i and j of pts with tolerance t: the
\* positions kept.
RECURSIVE RingDPKeep(_, _, _, _)
RingDPKeep(pts, i, j, t) ==
    IF j <= i + 1 THEN {i, j}
    ELSE LET d(k) == SegDist2(pts[k], pts[i], pts[j])
             far == CHOOSE k \in (i + 1)..(j - 1) :
                        /\ \A l \in (i + 1)..(j - 1) : ~FracLt(d(k), d(l))
                        /\ \A l \in (i + 1)..(k - 1) : FracLt(d(l), d(k))
         IN  IF FracLt(<<t * t, coordUnit * coordUnit>>, d(far))
             THEN RingDPKeep(pts, i, far, t) \cup RingDPKeep(pts, far, j, t)
             ELSE {i, j}

\* The ring of newpgon.simplify(tolsimpl, preserve_topology=True): the closed
\* ring is simplified as a line from its first point back to its first point.
RingSimplify(ring, t) ==
    LET closed == Append(ring, ring[1])
        keep == RingDPKeep(closed, 1, Len(closed), t)
        kept == SelectSeq([k \in DOMAIN ring |-> <<k, ring[k]>>], LAMBDA e : e[1] \in keep)
    IN  [k \in DOMAIN kept |-> kept[k][2]]

\* The tolerances at which the while loop re-simplifies a polygon that stays
\* invalid: tolsimpl is raised as long as it is below minwthick / 2.5.
RepairTols(t, minwthick) ==
    {t + k * minwthick : k \in {n \in 1..20 : t + (n - 1) * minwthick < 20 * minwthick}}

\* isvalid and tolsimpl after the while loop on newpgon = pg.
RepairLoop_flagkept(pg, t, minwthick) ==
    IF is_valid(pg) THEN [isvalid |-> 1, tolsimpl |-> t]
    ELSE [isvalid |-> 1, tolsimpl |-> RaiseTol(t, minwthick)]

RepairLoop(pg, t, minwthick) ==
    IF is_valid(pg) THEN [isvalid |-> 1, tolsimpl |-> t]
    ELSE [isvalid |-> 0, tolsimpl |-> RaiseTol(t, minwthick)]

GCurZ == gzcoords[gi + 1]
GCurList == gargs.cleanpolys[GCurZ]

IdleG ==
    /\ gargs = [minwthick |-> 0, zcoords |-> <<>>, cleanpolys |-> <<>>]
    /\ gpc = "idle" /\ gzcoords = <<>> /\ gi = 0 /\ gj = 0 /\ newpgon = Unbound
    /\ tolsimpl = 0 /\ pgons = <<>> /\ polygs = <<>> /\ invalidpolygons = <<>>
    /\ gexc = "none"

\* Lines 246-260.
GFilter ==
    /\ gpc = "filter"
    /\ gzcoords' = RemoveMissing(gargs.zcoords, gargs.cleanpolys)
    /\ gpc' = IF RemoveMissing(gargs.zcoords, gargs.cleanpolys) = <<>>
              THEN "done" ELSE "polyline"
    /\ UNCHANGED <<gargs, gi, gj, newpgon, tolsimpl, pgons, polygs, invalidpolygons, gexc>>

\* Lines 264-293 for one polyline, newpgon being bound after the try.
GPolyline ==
    /\ gpc = "polyline"
    /\ gj < Len(GCurList)
    /\ LET polyline == GCurList[gj + 1]
           pg == IF Convertible(polyline) THEN Polygon(polyline) ELSE newpgon
           after == RepairLoop(pg, tolsimpl, gargs.minwthick)
       IN  /\ pg.bound
           /\ newpgon' = pg
           /\ tolsimpl' = after.tolsimpl
           /\ IF after.isvalid = 0
              THEN /\ invalidpolygons' = Append(invalidpolygons, GCurZ)
                   /\ UNCHANGED pgons
              ELSE /\ pgons' = Append(pgons, pg)
                   /\ UNCHANGED invalidpolygons
    /\ gj' = gj + 1
    /\ UNCHANGED <<gargs, gpc, gzcoords, gi, polygs, gexc>>

\* Lines 265-271 when the first polyline ever cannot be converted: newpgon
\* is read before it was assigned.
GPolylineUnbound ==
    /\ gpc = "polyline"
    /\ gj < Len(GCurList)
    /\ ~Convertible(GCurList[gj + 1])
    /\ ~newpgon.bound
    /\ gpc' = "raised"
    /\ gexc' = "UnboundLocalError"
    /\ UNCHANGED <<gargs, gzcoords, gi, gj, newpgon, tolsimpl, pgons, polygs, invalidpolygons>>

\* Lines 294-309 and the next iteration of `for z in zcoords` (pgons = []).
GCombine ==
    /\ gpc = "polyline"
    /\ gj = Len(GCurList)
    /\ polygs' = IF pgons = <<>> THEN polygs        \* IndexError, caught
                 ELSE SetKey(polygs, GCurZ, FoldSymDiff(CellsOf(pgons[1]), Tail(pgons)))
    /\ pgons' = <<>>
    /\ gj' = 0
    /\ gi' = gi + 1
    /\ gpc' = IF gi + 1 = Len(gzcoords) THEN "done" ELSE "polyline"
    /\ UNCHANGED <<gargs, gzcoords, newpgon, tolsimpl, invalidpolygons, gexc>>

----------------------------------------------------------------------------
(* Claims about make_polygons.                                             *)

\* C8: every polygon in pgons, the list combined into the MultiPolygon of
\* the level, is valid.
C8_OnlyValidCombined ==
    \A i \in DOMAIN pgons : IsValidRing(pgons[i].ring)

\* All polylines of a level are processed: two polygons are collected, a
\* polygon of the level was abandoned as invalid, and a polyline that could
\* not be converted came right after a valid one.
C8_Witness ==
    /\ gpc = "polyline"
    /\ gj = Len(GCurList)
    /\ Len(pgons) >= 2
    /\ \E k \in DOMAIN invalidpolygons : invalidpolygons[k] = GCurZ
    /\ \E k \in 2..Len(GCurList) :
          ~Convertible(GCurList[k]) /\ IsValidRing(GCurList[k - 1])

\* The number of polygons of pgons that cover the cell c.
Coverage(c) == Cardinality({i \in DOMAIN pgons : c \in CellsOf(pgons[i])})

\* C18: the step that combines the polygons of a level stores the
\* MultiPolygon that covers a point if and only if an odd number of the
\* polygons cover it: the union when they are pairwise disjoint, and
\* without the part that two of them share.
C18_SymDiffParity ==
    [][(gpc = "polyline" /\ gj = Len(GCurList) /\ pgons # <<>>) =>
          /\ GCurZ \in DOMAIN polygs'
          /\ \A c \in GCells : c \in polygs'[GCurZ] <=> Coverage(c) % 2 = 1
          /\ (\A c \in GCells : Coverage(c) <= 1) =>
                polygs'[GCurZ] = UNION {CellsOf(pgons[i]) : i \in DOMAIN pgons}
          /\ \A c \in GCells : Coverage(c) = 2 => c \notin polygs'[GCurZ]]_vars

\* The polygons of a level are about to be combined: two of them overlap,
\* and a third one is apart from both.
C18_Witness ==
    /\ gpc = "polyline" /\ gj = Len(GCurList)
    /\ Len(pgons) = 3
    /\ \E c \in GCells : Coverage(c) = 2
    /\ \E i \in DOMAIN pgons : \A c \in CellsOf(pgons[i]) : Coverage(c) = 1

\* The tolerances of RepairTols at which the re-simplified ring is valid.
RepairedAt(ring, t, minwthick) ==
    {s \in RepairTols(t, minwthick) : IsValidRing(RingSimplify(ring, s))}

\* The step of make_polygons handles a polyline that converts to an invalid
\* polygon.
GAtInvalid ==
    /\ gpc = "polyline" /\ gj < Len(GCurList)
    /\ Convertible(GCurList[gj + 1])
    /\ ~IsValidRing(GCurList[gj + 1])

\* C21: an invalid ring is re-simplified at tolerances raised in steps of
\* minwthick / 50; when the ring re-simplified at one of the tolerances
\* reached is valid, the repaired polygon is added to the polygons of the
\* level and the level is not flagged; otherwise the ring is abandoned and
\* the level is flagged.
C21_RepairedIncluded ==
    [][GAtInvalid =>
          LET ring == GCurList[gj + 1]
              ok == RepairedAt(ring, tolsimpl, gargs.minwthick)
          IN  IF ok # {}
              THEN LET s == CHOOSE x \in ok : \A y \in ok : x <= y
                   IN  /\ pgons' = Append(pgons, Polygon(RingSimplify(ring, s)))
                       /\ invalidpolygons' = invalidpolygons
              ELSE /\ pgons' = pgons
                   /\ invalidpolygons' = Append(invalidpolygons, GCurZ)]_vars

\* All polylines of the current level are handled.
GAtCombine == gpc = "polyline" /\ gj = Len(GCurList)

\* The polylines of the current level that convert to a valid polygon, and
\* the fact that one of them converts to an invalid polygon.
GValidOfLevel == SelectSeq(GCurList, LAMBDA p : Convertible(p) /\ IsValidRing(p))
GInvalidInLevel == \E k \in DOMAIN GCurList : Convertible(GCurList[k]) /\ ~IsValidRing(GCurList[k])

\* C22: when the polylines of a level are handled, the level is in
\* invalidpolygons if and only if one of its polygons was abandoned as
\* invalid, no exception was raised by abandoning, and every valid polygon of
\* the level is among the polygons to be combined.
C22_ReportedIffAbandoned ==
    GAtCombine =>
        /\ (\E k \in DOMAIN invalidpolygons : invalidpolygons[k] = GCurZ) <=> GInvalidInLevel
        /\ \A k \in DOMAIN GValidOfLevel :
              \E i \in DOMAIN pgons : pgons[i] = Polygon(GValidOfLevel[k])

\* C28: when the polylines of a level are handled, the polygons to be
\* combined are the polygons of the polylines of the level that convert to a
\* valid polygon, one for each: a polyline that does not convert adds none,
\* and no polygon of an earlier polyline is added again.
C28_DistinctPolylines ==
    GAtCombine =>
        pgons = [k \in DOMAIN GValidOfLevel |-> Polygon(GValidOfLevel[k])]

----------------------------------------------------------------------------
(* make_mesh(xeldim, yeldim, xmin, ymin, xmax, ymax, zcoords, polygs)       *)
(* Coordinates are integers.  A MultiPolygon is a union of closed unit      *)
(* cells [i, i + 1] x [j, j + 1], given by the set of its cells <<i, j>>.   *)
(* The node table is a float32 array compared with ==; the model compares   *)
(* the integers, which float32 holds exactly.                               *)

arr_dimDen == 2         \* arr_dim = 0.5 = 1/2

MaxMLevels == 4         \* number of levels
MaxMBox == 4            \* xmax and ymax (xmin and ymin are 0)

MBoxCells == (0..(MaxMBox - 1)) \X (0..(MaxMBox - 1))

\* MultiPolygons in the bounding box: all of it, the left column with the
\* bottom row, the diagonal, one cell, nothing.
MRegions ==
    { MBoxCells,
      {c \in MBoxCells : c[1] = 0 \/ c[2] = 0},
      {c \in MBoxCells : c[1] = c[2]},
      {<<0, 0>>},
      {} }

\* Level sets of n levels: evenly spaced, and with gaps 1, 2, 1, 2, ...
MLevelSets(n) ==
    { [i \in 1..n |-> i - 1],
      [i \in 1..n |-> (3 * (i - 1)) \div 2] }

\* The MultiPolygons of n levels: one on the levels of odd rank, one on the
\* levels of even rank.
MStacks(n) ==
    {[i \in 1..n |-> IF i % 2 = 1 THEN p[1] ELSE p[2]] : p \in MRegions \X MRegions}

MArgs ==
    UNION {
      {[xeldim |-> e[1], yeldim |-> e[2], xmin |-> 0, ymin |-> 0,
        xmax |-> MaxMBox, ymax |-> MaxMBox, zcoords |-> zs,
        polygs |-> [z \in Range(zs) |-> rs[CHOOSE k \in DOMAIN zs : zs[k] = z]]] :
          e \in {<<1, 1>>, <<2, 1>>}, zs \in MLevelSets(n), rs \in MStacks(n)} :
      n \in 1..MaxMLevels}

\* Arguments with cell sizes of any sign: the box [0, b1] x [0, b2] with
\* sides of 1 or MaxMBox, 1 or MaxMLevels levels, the whole box at every level.
MGridArgs ==
    {[xeldim |-> e[1], yeldim |-> e[2], xmin |-> 0, ymin |-> 0,
      xmax |-> b[1], ymax |-> b[2], zcoords |-> [i \in 1..n |-> i - 1],
      polygs |-> [z \in 0..(n - 1) |-> (0..(b[1] - 1)) \X (0..(b[2] - 1))]] :
        e \in ((-1)..1) \X ((-1)..1), b \in {1, MaxMBox} \X {1, MaxMBox},
        n \in {1, MaxMLevels}}

\* np.arange(lo, hi, step) on integers.
IntArange(lo, hi, step) ==
    LET r == arange(lo, hi, step).zcoords IN [i \in DOMAIN r |-> r[i][1]]

\* polygs[z].contains(sg.Point(cx2 / 2, cy2 / 2)): the point is interior to
\* the union of the cells, that is every unit cell it lies in or on is one
\* of them.
CellsAt(c2) == IF c2 % 2 = 1 THEN {(c2 - 1) \div 2} ELSE {(c2 \div 2) - 1, c2 \div 2}

Contains(region, cx2, cy2) == CellsAt(cx2) \X CellsAt(cy2) \subseteq region

\* The cells <<x, y>> (indices from 0 into xelgrid, yelgrid) whose centre the
\* region contains, x-major as the loops of lines 83-84 find them.
Rasterize(region, xn, yn, xeldim, yeldim) ==
    LET nx == IF xn = <<>> THEN 0 ELSE Len(xn) - 1      \* len(xngrid[: -1])
        ny == IF yn = <<>> THEN 0 ELSE Len(yn) - 1
        all == [k \in 1..(nx * ny) |-> <<(k - 1) \div ny, (k - 1) % ny>>]
    IN  SelectSeq(all, LAMBDA c :
            Contains(region, 2 * xn[c[1] + 1] + xeldim, 2 * yn[c[2] + 1] + yeldim))

\* Lines 118-121: elh for the level of index z (from 0); zcoords[z - 1] with
\* z = 0 is zcoords[-1], the last level.
ElemHeight(zs, z) ==
    IF z # Len(zs) - 1 THEN zs[z + 2] - zs[z + 1]
    ELSE zs[z + 1] - zs[IF z = 0 THEN Len(zs) ELSE z]

\* Lines 140-155: tempn for corner `node` of the cell elem, without its id.
CornerCoords(xn, yn, elem, node, crntz, elh) ==
    LET dx == IF node \in {1, 2, 5, 6} THEN 1 ELSE 0
        dy == IF node \in {2, 3, 6, 7} THEN 1 ELSE 0
        dz == IF node >= 4 THEN elh ELSE 0
    IN  <<xn[elem[1] + 1 + dx], yn[elem[2] + 1 + dy], crntz + dz>>

\* int(tot_elements * arr_dim)
NewRows(tot) == tot \div arr_dimDen

\* The rows searched when z > 2 taken from ignore[z - 1], one level late.
SearchFrom_late(z, ign) == IF z > 2 THEN ign[z] + 1 ELSE 1

\* Lines 162-169: the rows the corner is compared with, as positions of
\* nodelist: from ignore[z - 2] on when z > 2, else all rows.
SearchFrom(z, ign) == IF z > 2 THEN ign[z - 1] + 1 ELSE 1

\* nexists: positions, counted in the rows searched, of the rows with the
\* coordinates of the corner.
NExists(nl, from, xyz) ==
    {k \in 1..(Len(nl) - from + 1) :
        LET row == nl[from + k - 1] IN <<row[2], row[3], row[4]>> = xyz}

\* Corner with the node counter left where it was after a row is stored.
Corner_samenode(st, xyz, z, ign, eid, tot) ==
    IF st.exc # "none" THEN st
    ELSE
    LET store(rows) ==
            [st EXCEPT !.nodelist = Append(st.nodelist, <<st.nodeID>> \o xyz),
                       !.nrows = rows,
                       !.tempel = Append(st.tempel, st.nodeID),
                       !.zignore = st.zignore + 1]
    IN  IF eid # 1
        THEN LET from == SearchFrom(z, ign)
                 nexists == NExists(st.nodelist, from, xyz)
             IN  IF Cardinality(nexists) = 1
                 THEN LET k == CHOOSE k \in nexists : TRUE
                      IN  [st EXCEPT !.tempel = Append(st.tempel, st.nodelist[from + k - 1][1])]
                 ELSE store(IF st.nodeID - 1 < st.nrows THEN st.nrows
                            ELSE st.nrows + NewRows(tot))
        ELSE LET rows == IF st.nodeID = 1 THEN NewRows(tot) ELSE st.nrows
             IN  IF st.nodeID - 1 < rows
                 THEN store(rows)
                 ELSE [st EXCEPT !.exc = "IndexError", !.nrows = rows]

\* Lines 140-202 for one corner.  st holds nodelist, nrows, nodeID, zignore,
\* tempel and exc; a state with exc set is passed through.
Corner(st, xyz, z, ign, eid, tot) ==
    IF st.exc # "none" THEN st
    ELSE
    LET store(rows) ==
            [st EXCEPT !.nodelist = Append(st.nodelist, <<st.nodeID>> \o xyz),
                       !.nrows = rows,
                       !.tempel = Append(st.tempel, st.nodeID),
                       !.nodeID = st.nodeID + 1,
                       !.zignore = st.zignore + 1]
    IN  IF eid # 1
        THEN LET from == SearchFrom(z, ign)
                 nexists == NExists(st.nodelist, from, xyz)
             IN  IF Cardinality(nexists) = 1
                 THEN LET k == CHOOSE k \in nexists : TRUE
                      IN  [st EXCEPT !.tempel = Append(st.tempel, st.nodelist[from + k - 1][1])]
                 ELSE IF st.nodeID - 1 < st.nrows
                 THEN store(st.nrows)
                 ELSE IF st.nodeID - 1 < st.nrows + NewRows(tot)      \* except IndexError
                 THEN store(st.nrows + NewRows(tot))
                 ELSE [st EXCEPT !.exc = "IndexError"]
        ELSE LET rows == IF st.nodeID = 1 THEN NewRows(tot) ELSE st.nrows
             IN  IF st.nodeID - 1 < rows
                 THEN store(rows)
                 ELSE [st EXCEPT !.exc = "IndexError", !.nrows = rows]

RECURSIVE Corners(_, _, _, _, _, _, _)
Corners(st, node, cs, z, ign, eid, tot) ==
    IF node > 7 THEN st
    ELSE Corners(Corner(st, cs[node + 1], z, ign, eid, tot), node + 1, cs, z, ign, eid, tot)

MCurZ == margs.zcoords[mz + 1]

IdleM ==
    /\ margs = [xeldim |-> 0, yeldim |-> 0, xmin |-> 0, ymin |-> 0, xmax |-> 0,
                ymax |-> 0, zcoords |-> <<>>, polygs |-> <<>>]
    /\ mpc = "idle" /\ xngrid = <<>> /\ yngrid = <<>> /\ elemlist = <<>>
    /\ tot_elements = 0 /\ mz = 0 /\ me = 0 /\ nodeID = 0 /\ elID = 0
    /\ nodelist = <<>> /\ nrows = 0 /\ elconnect = <<>> /\ z_elconnect = <<>>
    /\ ignore = <<>> /\ zignore = 0 /\ mexc = "none"

\* Lines 70-73.
MGrid ==
    /\ mpc = "grid"
    /\ margs.xeldim # 0 /\ margs.yeldim # 0
    /\ xngrid' = IntArange(margs.xmin - margs.xeldim, margs.xmax + 2 * margs.xeldim,
                           margs.xeldim)
    /\ yngrid' = IntArange(margs.ymin - margs.yeldim, margs.ymax + 2 * margs.yeldim,
                           margs.yeldim)
    /\ mpc' = "raster"
    /\ UNCHANGED <<margs, elemlist, tot_elements, mz, me, nodeID, elID, nodelist, nrows,
                   elconnect, z_elconnect, ignore, zignore, mexc>>

\* Lines 70-72 with a cell size of zero: np.arange raises, ZeroDivisionError
\* on Python floats and ValueError on numpy floats.
MGridZero ==
    /\ mpc = "grid"
    /\ margs.xeldim = 0 \/ margs.yeldim = 0
    /\ mpc' = "raised"
    /\ mexc' \in {"ZeroDivisionError", "ValueError"}
    /\ UNCHANGED <<margs, xngrid, yngrid, elemlist, tot_elements, mz, me, nodeID, elID,
                   nodelist, nrows, elconnect, z_elconnect, ignore, zignore>>

\* Lines 81-95 for one level with at least one cell inside its MultiPolygon.
MRaster ==
    /\ mpc = "raster"
    /\ mz < Len(margs.zcoords)
    /\ MCurZ \in DOMAIN margs.polygs
    /\ LET cells == Rasterize(margs.polygs[MCurZ], xngrid, yngrid, margs.xeldim, margs.yeldim)
       IN  /\ cells # <<>>
           /\ elemlist' = SetKey(elemlist, MCurZ, cells)
           /\ tot_elements' = tot_elements + Len(cells)
    /\ mz' = mz + 1
    /\ UNCHANGED <<margs, mpc, xngrid, yngrid, me, nodeID, elID, nodelist, nrows,
                   elconnect, z_elconnect, ignore, zignore, mexc>>

\* Line 95 for a level with no cell inside: elemlist[z] was never assigned
\* and np.array(elemlist[z]) raises KeyError.
MRasterNoCell ==
    /\ mpc = "raster"
    /\ mz < Len(margs.zcoords)
    /\ MCurZ \in DOMAIN margs.polygs
    /\ Rasterize(margs.polygs[MCurZ], xngrid, yngrid, margs.xeldim, margs.yeldim) = <<>>
    /\ mpc' = "raised"
    /\ mexc' = "KeyError"
    /\ UNCHANGED <<margs, xngrid, yngrid, elemlist, tot_elements, mz, me, nodeID, elID,
                   nodelist, nrows, elconnect, z_elconnect, ignore, zignore>>

\* Line 85 for a level that is no key of polygs: polygs[z] raises KeyError.
MRasterNoKey ==
    /\ mpc = "raster"
    /\ mz < Len(margs.zcoords)
    /\ MCurZ \notin DOMAIN margs.polygs
    /\ mpc' = "raised"
    /\ mexc' = "KeyError"
    /\ UNCHANGED <<margs, xngrid, yngrid, elemlist, tot_elements, mz, me, nodeID, elID,
                   nodelist, nrows, elconnect, z_elconnect, ignore, zignore>>

\* Lines 96-111.
MRasterEnd ==
    /\ mpc = "raster"
    /\ mz = Len(margs.zcoords)
    /\ mpc' = "mesh"
    /\ mz' = 0 /\ me' = 0
    /\ nodeID' = 1 /\ elID' = 1
    /\ nodelist' = <<>> /\ nrows' = -1
    /\ elconnect' = <<>> /\ z_elconnect' = <<>>
    /\ ignore' = <<>> /\ zignore' = 0
    /\ UNCHANGED <<margs, xngrid, yngrid, elemlist, tot_elements, mexc>>

\* Lines 126-206 for one element of the level.
MElement ==
    /\ mpc = "mesh"
    /\ mz < Len(margs.zcoords)
    /\ me < Len(elemlist[MCurZ])
    /\ LET elem == elemlist[MCurZ][me + 1]
           elh == ElemHeight(margs.zcoords, mz)
           cs == [n \in 1..8 |-> CornerCoords(xngrid, yngrid, elem, n - 1, MCurZ, elh)]
           st0 == [nodelist |-> nodelist, nrows |-> nrows, nodeID |-> nodeID,
                   zignore |-> zignore, tempel |-> <<elID>>, exc |-> "none"]
       IN  \E st \in {Corners(st0, 0, cs, mz, ignore, elID, tot_elements)} :
           /\ nodelist' = st.nodelist
           /\ nrows' = st.nrows
           /\ nodeID' = st.nodeID
           /\ zignore' = st.zignore
           /\ IF st.exc # "none"
              THEN /\ mpc' = "raised"
                   /\ mexc' = st.exc
                   /\ UNCHANGED <<z_elconnect, elID, me>>
              ELSE /\ z_elconnect' = Append(z_elconnect, st.tempel)
                   /\ elID' = elID + 1
                   /\ me' = me + 1
                   /\ UNCHANGED <<mpc, mexc>>
    /\ UNCHANGED <<margs, xngrid, yngrid, elemlist, tot_elements, mz, elconnect, ignore>>

\* The end of a level with the connectivity of the level assigned to
\* elconnect in place of being added to it.
MLevelEnd_assign ==
    /\ mpc = "mesh"
    /\ mz < Len(margs.zcoords)
    /\ me = Len(elemlist[MCurZ])
    /\ elconnect' = z_elconnect
    /\ z_elconnect' = <<>>
    /\ ignore' = Append(ignore, zignore)
    /\ mz' = mz + 1
    /\ me' = 0
    /\ UNCHANGED <<margs, mpc, xngrid, yngrid, elemlist, tot_elements, nodeID, elID,
                   nodelist, nrows, zignore, mexc>>

\* Lines 208-210 and the next iteration of the loop over the levels.
MLevelEnd ==
    /\ mpc = "mesh"
    /\ mz < Len(margs.zcoords)
    /\ me = Len(elemlist[MCurZ])
    /\ elconnect' = elconnect \o z_elconnect
    /\ z_elconnect' = <<>>
    /\ ignore' = Append(ignore, zignore)
    /\ mz' = mz + 1
    /\ me' = 0
    /\ UNCHANGED <<margs, mpc, xngrid, yngrid, elemlist, tot_elements, nodeID, elID,
                   nodelist, nrows, zignore, mexc>>

\* Lines 212-219: the rows written are the rows that are not nan.
MReturn ==
    /\ mpc = "mesh"
    /\ mz = Len(margs.zcoords)
    /\ mpc' = "done"
    /\ UNCHANGED <<margs, xngrid, yngrid, elemlist, tot_elements, mz, me, nodeID, elID,
                   nodelist, nrows, elconnect, z_elconnect, ignore, zignore, mexc>>

----------------------------------------------------------------------------
(* Claims about make_mesh.                                                 *)

NodeCoords(row) == <<row[2], row[3], row[4]>>

\* C9: in the node table make_mesh returns no two nodes have the same
\* (x, y, z).
C9_NodesUnique ==
    mpc = "done" =>
        \A i \in DOMAIN nodelist : \A j \in DOMAIN nodelist :
            i # j => NodeCoords(nodelist[i]) # NodeCoords(nodelist[j])

\* C10: every row of the connectivity table make_mesh returns holds 8
\* pairwise distinct node ids, each the id of a row of the node table.
C10_ElementNodes ==
    mpc = "done" =>
        \A e \in DOMAIN elconnect :
            /\ Len(elconnect[e]) = 9
            /\ \A a \in 2..9 : \A b \in 2..9 : a # b => elconnect[e][a] # elconnect[e][b]
            /\ \A a \in 2..9 : \E i \in DOMAIN nodelist : nodelist[i][1] = elconnect[e][a]

\* The same two properties for the level sets of two levels or more.
MeshSoundFromTwoLevels ==
    (mpc = "done" /\ Len(margs.zcoords) >= 2) =>
        /\ \A i \in DOMAIN nodelist : \A j \in DOMAIN nodelist :
              i # j => NodeCoords(nodelist[i]) # NodeCoords(nodelist[j])
        /\ \A e \in DOMAIN elconnect :
              /\ \A a \in 2..9 : \A b \in 2..9 : a # b => elconnect[e][a] # elconnect[e][b]
              /\ \A a \in 2..9 : \E i \in DOMAIN nodelist : nodelist[i][1] = elconnect[e][a]

\* The elevation of the bottom face of element e of the returned table.
ElemBottomZ(e) == nodelist[elconnect[e][2]][4]

\* C11: row i of the returned node table carries node id i, row j of the
\* returned connectivity table carries element id j (both counted from 1),
\* and the elements come in the order of the levels.
C11_DenseIds ==
    mpc = "done" =>
        /\ \A i \in DOMAIN nodelist : nodelist[i][1] = i
        /\ \A j \in DOMAIN elconnect : elconnect[j][1] = j
        /\ \A j \in DOMAIN elconnect : \A k \in DOMAIN elconnect :
              j < k => /\ elconnect[j][1] < elconnect[k][1]
                       /\ ElemBottomZ(j) <= ElemBottomZ(k)

\* A mesh of several levels is returned in which node ids were reused.
C11_Witness ==
    /\ mpc = "done"
    /\ Len(margs.zcoords) >= 3
    /\ Len(elconnect) >= 16
    /\ Len(nodelist) < 8 * Len(elconnect)
    /\ \E j \in DOMAIN elconnect : ElemBottomZ(j) # ElemBottomZ(1)

\* The number of cells recorded in elemlist, all levels together.
CellCount == SumOver([z \in DOMAIN elemlist |-> Len(elemlist[z])], DOMAIN elemlist)

\* C12: the number of rows of the returned connectivity table is the sum
\* over the levels of the number of cells of elemlist, and each level has as
\* many elements as it has cells.
C12_ElementCount ==
    mpc = "done" =>
        /\ Len(elconnect) = CellCount
        /\ \A z \in DOMAIN elemlist :
              Cardinality({e \in DOMAIN elconnect : ElemBottomZ(e) = z}) = Len(elemlist[z])

\* A mesh is returned for levels with different numbers of cells.
C12_Witness ==
    /\ mpc = "done"
    /\ \E z1 \in DOMAIN elemlist : \E z2 \in DOMAIN elemlist :
          Len(elemlist[z1]) < Len(elemlist[z2])
    /\ Len(elconnect) >= 16

\* The levels whose MultiPolygon contains no element centre.
EmptyLevels ==
    {z \in Range(margs.zcoords) \cap DOMAIN margs.polygs :
        Rasterize(margs.polygs[z], xngrid, yngrid, margs.xeldim, margs.yeldim) = <<>>}

\* C14: a level whose MultiPolygon contains no element centre raises no
\* error; when every level is such a level, an empty mesh is returned.
C14_EmptyLevelNoError ==
    (mpc \in {"raster", "mesh", "done", "raised"} /\ EmptyLevels # {}) => mpc # "raised"

MInvalidGrid == margs.xeldim <= 0 \/ margs.yeldim <= 0

\* C15: with a cell size that is zero or negative make_mesh fails before
\* any work on a level (the exception np.arange raises is taken for
\* InvalidGridError).
C15_InvalidGridFails ==
    (mpc # "idle" /\ MInvalidGrid) =>
        \/ mpc = "grid"
        \/ mpc = "raised" /\ mexc \in {"ZeroDivisionError", "ValueError"}

\* The 8 corners of the next element of the level.
NextCorners ==
    [n \in 1..8 |-> CornerCoords(xngrid, yngrid, elemlist[MCurZ][me + 1], n - 1, MCurZ,
                                 ElemHeight(margs.zcoords, mz))]

\* Lines 140-202 for the next element, the rows searched being those of
\* level index z.
NextElement(z) ==
    Corners([nodelist |-> nodelist, nrows |-> nrows, nodeID |-> nodeID,
             zignore |-> zignore, tempel |-> <<elID>>, exc |-> "none"],
            0, NextCorners, z, ignore, elID, tot_elements)

MAtElement == mpc = "mesh" /\ mz < Len(margs.zcoords) /\ me < Len(elemlist[MCurZ])

\* The position in zcoords of the level at elevation z.
LevelAt(z) == CHOOSE i \in DOMAIN margs.zcoords : margs.zcoords[i] = z

\* C24: every element emitted has its 4 bottom nodes at its level and its 4
\* top nodes at level + height, where the height of level i is
\* levels[i+1] - levels[i] for every level but the last and
\* levels[i] - levels[i-1] for the last level, and is strictly positive.
C24_ElementHeight ==
    mpc \in {"mesh", "done"} =>
        \A el \in Range(elconnect) \cup Range(z_elconnect) :
            LET zb == nodelist[el[2]][4]
                i == LevelAt(zb)
                n == Len(margs.zcoords)
            IN  /\ i < n \/ i > 1
                /\ LET h == IF i < n THEN margs.zcoords[i + 1] - margs.zcoords[i]
                                     ELSE margs.zcoords[i] - margs.zcoords[i - 1]
                   IN  /\ h > 0
                       /\ \A k \in 2..5 : /\ nodelist[el[k]][4] = zb
                                           /\ nodelist[el[k + 4]][4] = zb + h

\* The level (index from 0) and the cell of the idx-th element emitted, the
\* elements of level lv and above being counted from 1.
RECURSIVE ElemCellOf(_, _)
ElemCellOf(lv, idx) ==
    LET cells == elemlist[margs.zcoords[lv + 1]]
    IN  IF idx <= Len(cells) THEN <<lv, cells[idx]>>
        ELSE ElemCellOf(lv + 1, idx - Len(cells))

\* The coordinates of the node with the given id.
NodeXYZ(id) == NodeCoords(CHOOSE r \in Range(nodelist) : r[1] = id)

\* C25: for every element emitted, of cell (i, j), connectivity entries 1..4
\* are the nodes at (xn[i], yn[j]), (xn[i+1], yn[j]), (xn[i+1], yn[j+1]),
\* (xn[i], yn[j+1]) at the elevation of the level, in counter-clockwise
\* order (xn[i] < xn[i+1] and yn[j] < yn[j+1]), entry k + 4 is the node
\* above entry k at elevation + height, and i + 1, j + 1 are indices of the
\* node grids.
C25_CornerOrder ==
    mpc \in {"mesh", "done"} =>
        LET els == elconnect \o z_elconnect IN
        \A e \in DOMAIN els :
            LET lc == ElemCellOf(0, e)
                i == lc[2][1] + 1
                j == lc[2][2] + 1
                z == margs.zcoords[lc[1] + 1]
                h == ElemHeight(margs.zcoords, lc[1])
            IN  /\ i + 1 \in DOMAIN xngrid /\ j + 1 \in DOMAIN yngrid
                /\ xngrid[i] < xngrid[i + 1] /\ yngrid[j] < yngrid[j + 1]
                /\ NodeXYZ(els[e][2]) = <<xngrid[i], yngrid[j], z>>
                /\ NodeXYZ(els[e][3]) = <<xngrid[i + 1], yngrid[j], z>>
                /\ NodeXYZ(els[e][4]) = <<xngrid[i + 1], yngrid[j + 1], z>>
                /\ NodeXYZ(els[e][5]) = <<xngrid[i], yngrid[j + 1], z>>
                /\ \A k \in 2..5 :
                      NodeXYZ(els[e][k + 4]) =
                          <<NodeXYZ(els[e][k])[1], NodeXYZ(els[e][k])[2], z + h>>

\* C27: make_mesh never writes a node past the end of its node table: for
\* every total element count, no IndexError leaves the function, and the 8
\* nodes of every element emitted are rows of the node table.
C27_NoWritePastEnd ==
    /\ mexc # "IndexError"
    /\ mpc \in {"mesh", "done"} =>
          \A el \in Range(elconnect) \cup Range(z_elconnect) :
              \A k \in 2..9 : el[k] \in DOMAIN nodelist /\ nodelist[el[k]][1] = el[k]

\* C17: for an element of a level of index z > 2, searching the rows
\* nodelist[ignore[z-2]:nodeID] gives, corner after corner, the ids and the
\* new rows that searching the whole table gives (level index 0 searches
\* the whole table).
C17_WindowEquivalent ==
    (MAtElement /\ mz > 2) => NextElement(mz) = NextElement(0)

\* At a level of index z > 2, a bottom corner of the next element is the
\* first row of the window, a node stored during level z - 1.
C17_Witness ==
    /\ MAtElement /\ mz > 2
    /\ \E n \in 1..4 : NodeCoords(nodelist[ignore[mz - 1] + 1]) = NextCorners[n]
    /\ ignore[mz - 1] > 0

----------------------------------------------------------------------------
(* The handlers of main_Cloud2FEM.py that pass the result of one stage to  *)
(* the next: each calls its function with mct.zcoords, the level set of    *)
(* the slicing, and the dict the stage before left in mct.                 *)

\* Slices of fewer than tolsl points.
CShortSlices ==
    {SliceOf(n, 0, 0, 0) : n \in 0..(tolsl - 1)} \cup {SparseSlice(n) : n \in 1..(tolsl - 1)}

CShortArgs ==
    {[minwthick |-> m, zcoords |-> <<0>>, slices |-> (0 :> s)] :
        m \in {2, 3}, s \in CShortSlices}
    \cup
    {[minwthick |-> 3, zcoords |-> <<0, 1>>, slices |-> (0 :> s) @@ (1 :> t)] :
        s \in CShortSlices, t \in CShortSlices}

\* genpolylines_clicked: make_polylines(minwthick, mct.zcoords, mct.ctrds).
\* It is used where every chain of mct.ctrds is None, so that no length
\* changes unit.
GenPolylines ==
    /\ cpc = "done"
    /\ ppc = "idle"
    /\ \A z \in DOMAIN ctrds : ctrds[z] = None
    /\ pargs' = [minwthick |-> cargs.minwthick, zcoords |-> cargs.zcoords, ctrds |-> ctrds]
    /\ ppc' = "split"
    /\ pi' = 0
    /\ polys' = <<>>
    /\ UNCHANGED <<tolpolyslen, cleanpolys, pexc>>

\* genpolygons_clicked: make_polygons(minwthick, mct.zcoords, mct.cleanpolys).
\* It is used where mct.cleanpolys has no polyline.
GenPolygons ==
    /\ ppc = "done"
    /\ gpc = "idle"
    /\ \A z \in DOMAIN cleanpolys : cleanpolys[z] = <<>>
    /\ gargs' = [minwthick |-> pargs.minwthick, zcoords |-> pargs.zcoords,
                 cleanpolys |-> cleanpolys]
    /\ gpc' = "filter"
    /\ gzcoords' = pargs.zcoords
    /\ tolsimpl' = tolsimpl0
    /\ UNCHANGED <<gi, gj, newpgon, pgons, polygs, invalidpolygons, gexc>>

\* A MultiPolygon of make_polygons in the unit of length of make_mesh, which
\* is half of it: a cell becomes four.
Refine(region) ==
    UNION {{<<2 * c[1] + a, 2 * c[2] + b>> : a \in 0..1, b \in 0..1} : c \in region}

\* genmesh_clicked: make_mesh(xeldim, yeldim, mct.xmin, mct.ymin, mct.xmax,
\* mct.ymax, mct.zcoords, mct.polygs), with cells of half a unit of
\* make_polygons and a cloud that spans [0, GGrid] x [0, GGrid].
GenMesh ==
    /\ gpc = "done"
    /\ mpc = "idle"
    /\ margs' = [xeldim |-> 1, yeldim |-> 1, xmin |-> 0, ymin |-> 0,
                 xmax |-> 2 * GGrid, ymax |-> 2 * GGrid,
                 zcoords |-> gargs.zcoords,
                 polygs |-> [z \in DOMAIN polygs |-> Refine(polygs[z])]]
    /\ mpc' = "grid"
    /\ nrows' = -1
    /\ UNCHANGED <<xngrid, yngrid, elemlist, tot_elements, mz, me, nodeID, elID,
                   nodelist, elconnect, z_elconnect, ignore, zignore, mexc>>

----------------------------------------------------------------------------
(* Claims about the stages in a row.                                       *)

\* C13: slices of fewer than tolsl points go through find_centroids,
\* make_polylines, make_polygons and make_mesh without an exception, and
\* leave no centroids, no polylines, no polygon and no element.
C13_ShortSlicesRun ==
    /\ cexc = "none" /\ pexc = "none" /\ gexc = "none" /\ mexc = "none"
    /\ \A z \in DOMAIN ctrds : ctrds[z] = None
    /\ DOMAIN polys = {}
    /\ DOMAIN cleanpolys = {}
    /\ DOMAIN polygs = {}
    /\ elconnect = <<>>

\* With such slices make_mesh never returns, whichever way round(nan) went
\* in make_polylines.
ShortSlicesNeverMeshed == mpc # "done"

\* C16: when make_polygons leaves a level of mct.zcoords without entry in
\* polygs, the make_mesh that follows skips the level and raises nothing.
C16_MissingLevelSkipped ==
    (\E k \in DOMAIN margs.zcoords : margs.zcoords[k] \notin DOMAIN margs.polygs)
        => mpc # "raised"

----------------------------------------------------------------------------
(* export_mesh(meshpath, nodelist, elconnect)                               *)
(* A coordinate is [neg, ip, fr]: sign, integer part and fraction in units  *)
(* of 10^-9.  The file is the list of its lines, a line the list of the     *)
(* pieces of text it is concatenated from: literal text, the digits of an   *)
(* integer, or the digits of a number in fixed notation.                    *)

decimals == 8           \* "%.8f"

MaxENodes == 2          \* rows of the node table
MaxEElems == 2          \* rows of the connectivity table

Coord(neg, ip, fr) == [neg |-> neg, ip |-> ip, fr |-> fr]

\* 0, 1, -1.5, 0.001953125 and 0.999999995 (halfway between two numbers of 8
\* decimals), -0.000000004, 12.125000016.
ECoords ==
    << Coord(FALSE, 0, 0), Coord(FALSE, 1, 0), Coord(TRUE, 1, 500000000),
       Coord(FALSE, 0, 1953125), Coord(FALSE, 0, 999999995), Coord(TRUE, 0, 4),
       Coord(FALSE, 12, 125000016) >>

ENodeRows ==
    { <<1, ECoords[1], ECoords[2], ECoords[3]>>,
      <<2, ECoords[4], ECoords[5], ECoords[6]>>,
      <<12, ECoords[7], ECoords[1], ECoords[5]>>,
      <<105, ECoords[3], ECoords[6], ECoords[4]>> }

EElemRows ==
    { <<1, 1, 2, 3, 4, 5, 6, 7, 8>>,
      <<30, 105, 3, 44, 1000, 12, 11, 105, 16>> }

EArgs ==
    [nodelist : SeqsOf(ENodeRows, 0, MaxENodes), elconnect : SeqsOf(EElemRows, 0, MaxEElems)]

\* The decimal digits of n >= 0, the first one not 0 unless n = 0.
RECURSIVE Digits(_)
Digits(n) == IF n < 10 THEN <<n>> ELSE Append(Digits(n \div 10), n % 10)

\* The w decimal digits of n < 10^w, with leading zeros.
DigitsFixed(n, w) == [i \in 1..w |-> (n \div Pow(10, w - i)) % 10]

\* The number of the digits d.
RECURSIVE NumOf(_)
NumOf(d) == IF d = <<>> THEN 0 ELSE 10 * NumOf(SubSeq(d, 1, Len(d) - 1)) + d[Len(d)]

Lit(s) == [t |-> "lit", s |-> s, neg |-> FALSE, ip |-> <<>>, fr |-> <<>>]

\* str(int(v)) for an id v.
IntText(v) == [t |-> "int", s |-> "", neg |-> v < 0, ip |-> Digits(Abs(v)), fr |-> <<>>]

\* The fraction cut after `decimals` digits, in place of rounded.
RoundFr_trunc(fr) == fr \div 10

\* The fraction rounded to `decimals` digits, half to even; 10^decimals when
\* it rounds up to the next integer.
RoundFr(fr) ==
    LET q == fr \div 10
        r == fr % 10
    IN  IF r < 5 THEN q
        ELSE IF r > 5 THEN q + 1
        ELSE IF q % 2 = 0 THEN q ELSE q + 1

\* "%.8f" % c
FixedText(c) ==
    LET f == RoundFr(c.fr)
        carry == f = Pow(10, decimals)
    IN  [t |-> "fix", s |-> "", neg |-> c.neg,
         ip |-> Digits(IF carry THEN c.ip + 1 ELSE c.ip),
         fr |-> DigitsFixed(IF carry THEN 0 ELSE f, decimals)]

\* Lines 233-238 for one row of nodelist.
NodeLine(node) ==
    << Lit("      "), IntText(node[1]), Lit(",   "), FixedText(node[2]), Lit(",   "),
       FixedText(node[3]), Lit(",   "), FixedText(node[4]) >>

\* Lines 241-252 for one row of elconnect.
ElemLine(elem) ==
    << IntText(elem[1]), Lit(", "), IntText(elem[2]), Lit(", "), IntText(elem[3]), Lit(", "),
       IntText(elem[4]), Lit(", "), IntText(elem[5]), Lit(", "), IntText(elem[6]), Lit(", "),
       IntText(elem[7]), Lit(", "), IntText(elem[8]), Lit(", "), IntText(elem[9]) >>

\* Lines 228-229.
EHead ==
    << <<Lit("*Heading")>>, <<Lit("** Generated by: Cloud2FEM")>>,
       <<Lit("**")>>, <<Lit("** PARTS")>>, <<Lit("**")>>, <<Lit("*Part, name=PART-1")>> >>

\* Lines 254-257.
ETail ==
    << <<Lit("*End Part")>>,
       <<Lit("**")>>, <<Lit("**")>>, <<Lit("** ASSEMBLY")>>, <<Lit("**")>>,
       <<Lit("*Assembly, name=Assembly")>>,
       <<Lit("**")>>, <<Lit("*Instance, name=WHOLE_MODEL, part=PART-1")>>,
       <<Lit("*End Instance")>>,
       <<Lit("**")>>, <<Lit("*End Assembly")>> >>

\* What a reader of the Abaqus input format finds in the lines: the data
\* lines after *Node are nodes, those after *Element are elements; lines
\* that start with ** are comments, any other keyword ends the section.
EComments == {"**", "** Generated by: Cloud2FEM", "** PARTS", "** ASSEMBLY"}

IsKeywordLine(line) == Len(line) = 1 /\ line[1].t = "lit"

\* The numbers of a data line, the text between them being separators.
Fields(line) == SelectSeq(line, LAMBDA tok : tok.t # "lit")

ParseInt(tok) == IF tok.neg THEN -NumOf(tok.ip) ELSE NumOf(tok.ip)

\* float(text), as a coordinate with the fraction in units of 10^-9.
ParseFixed(tok) ==
    LET ip == NumOf(tok.ip)
        fr == NumOf(tok.fr) * Pow(10, 9 - Len(tok.fr))
    IN  Coord(tok.neg /\ (ip # 0 \/ fr # 0), ip, fr)

ReadNode(line) ==
    LET f == Fields(line)
    IN  <<ParseInt(f[1]), ParseFixed(f[2]), ParseFixed(f[3]), ParseFixed(f[4])>>

ReadElem(line) == LET f == Fields(line) IN [k \in DOMAIN f |-> ParseInt(f[k])]

RECURSIVE ReadLines(_, _, _, _)
ReadLines(lines, i, section, acc) ==
    IF i > Len(lines) THEN acc
    ELSE LET line == lines[i] IN
         IF IsKeywordLine(line)
         THEN ReadLines(lines, i + 1,
                        IF line[1].s \in EComments THEN section
                        ELSE IF line[1].s = "*Node" THEN "node"
                        ELSE IF line[1].s = "*Element, type=C3D8" THEN "element"
                        ELSE "none",
                        acc)
         ELSE IF section = "node"
         THEN ReadLines(lines, i + 1, section,
                        [acc EXCEPT !.nodes = Append(acc.nodes, ReadNode(line))])
         ELSE IF section = "element"
         THEN ReadLines(lines, i + 1, section,
                        [acc EXCEPT !.elements = Append(acc.elements, ReadElem(line))])
         ELSE ReadLines(lines, i + 1, section, acc)

ReadFile(lines) == ReadLines(lines, 1, "none", [nodes |-> <<>>, elements |-> <<>>])

IdleE ==
    /\ eargs = [nodelist |-> <<>>, elconnect |-> <<>>]
    /\ epc = "idle" /\ ei = 0 /\ efile = <<>>
    /\ eread = [nodes |-> <<>>, elements |-> <<>>]

\* Lines 226-231.
EOpen ==
    /\ epc = "open"
    /\ efile' = EHead \o << <<Lit("*Node")>> >>
    /\ epc' = "nodes"
    /\ ei' = 0
    /\ UNCHANGED <<eargs, eread>>

\* Lines 232-237, one node.
ENode ==
    /\ epc = "nodes"
    /\ ei < Len(eargs.nodelist)
    /\ efile' = Append(efile, NodeLine(eargs.nodelist[ei + 1]))
    /\ ei' = ei + 1
    /\ UNCHANGED <<eargs, epc, eread>>

\* Line 239.
ENodesEnd ==
    /\ epc = "nodes"
    /\ ei = Len(eargs.nodelist)
    /\ efile' = Append(efile, <<Lit("*Element, type=C3D8")>>)
    /\ epc' = "elements"
    /\ ei' = 0
    /\ UNCHANGED <<eargs, eread>>

\* Lines 240-252, one element.
EElem ==
    /\ epc = "elements"
    /\ ei < Len(eargs.elconnect)
    /\ efile' = Append(efile, ElemLine(eargs.elconnect[ei + 1]))
    /\ ei' = ei + 1
    /\ UNCHANGED <<eargs, epc, eread>>

\* Lines 254-259.
EClose ==
    /\ epc = "elements"
    /\ ei = Len(eargs.elconnect)
    /\ efile' = efile \o ETail
    /\ epc' = "closed"
    /\ UNCHANGED <<eargs, ei, eread>>

\* The file is read back.
ERead ==
    /\ epc = "closed"
    /\ eread' = ReadFile(efile)
    /\ epc' = "read"
    /\ UNCHANGED <<eargs, ei, efile>>

----------------------------------------------------------------------------
(* Claims about export_mesh.                                               *)

\* The coordinate p is within half a unit of the 8th decimal of o.
CoordNear(p, o) ==
    LET a == (IF p.neg THEN -p.ip ELSE p.ip) - (IF o.neg THEN -o.ip ELSE o.ip)
        b == (IF p.neg THEN -p.fr ELSE p.fr) - (IF o.neg THEN -o.fr ELSE o.fr)
    IN  /\ Abs(a) <= 1
        /\ b <= 5 - a * Pow(10, 9)
        /\ b >= -5 - a * Pow(10, 9)

ENumNodes == Len(eargs.nodelist)
ENumElems == Len(eargs.elconnect)

\* C19: the file holds, in this order, the heading block, *Part, *Node and
\* one line per row of nodelist, *Element and one line per row of elconnect
\* with its id and 8 node ids, *End Part and the assembly block; reading it
\* back gives the node ids, the coordinates to 8 decimals and the
\* connectivity.
C19_ExportRoundTrip ==
    epc = "read" =>
        /\ Len(efile) = 6 + 1 + ENumNodes + 1 + ENumElems + 11
        /\ efile[1] = <<Lit("*Heading")>>
        /\ efile[6] = <<Lit("*Part, name=PART-1")>>
        /\ efile[7] = <<Lit("*Node")>>
        /\ \A i \in 1..ENumNodes :
              ~IsKeywordLine(efile[7 + i]) /\ Len(Fields(efile[7 + i])) = 4
        /\ efile[8 + ENumNodes] = <<Lit("*Element, type=C3D8")>>
        /\ \A j \in 1..ENumElems :
              /\ ~IsKeywordLine(efile[8 + ENumNodes + j])
              /\ ReadElem(efile[8 + ENumNodes + j]) = eargs.elconnect[j]
        /\ efile[9 + ENumNodes + ENumElems] = <<Lit("*End Part")>>
        /\ efile[14 + ENumNodes + ENumElems] = <<Lit("*Assembly, name=Assembly")>>
        /\ efile[Len(efile)] = <<Lit("*End Assembly")>>
        /\ Len(eread.nodes) = ENumNodes
        /\ \A i \in 1..ENumNodes :
              /\ eread.nodes[i][1] = eargs.nodelist[i][1]
              /\ \A k \in 2..4 :
                    /\ CoordNear(eread.nodes[i][k], eargs.nodelist[i][k])
                    /\ eread.nodes[i][k].fr % 10 = 0
        /\ eread.elements = eargs.elconnect

\* A file with two nodes and an element was read back; a coordinate was
\* rounded up to the next integer, and a negative one to zero.
C19_Witness ==
    /\ epc = "read"
    /\ ENumNodes >= 2 /\ ENumElems >= 1
    /\ \E i \in 1..ENumNodes : \E k \in 2..4 :
          /\ eargs.nodelist[i][k] = ECoords[5]
          /\ eread.nodes[i][k] = Coord(FALSE, 1, 0)
    /\ \E i \in 1..ENumNodes : \E k \in 2..4 :
          /\ eargs.nodelist[i][k].neg
          /\ eread.nodes[i][k] = Coord(FALSE, 0, 0)

----------------------------------------------------------------------------
(* The edit mode of the main window: editMode, keyPressEvent, the tools of  *)
(* plot2D, save_changes and discard_changes, on the level shown.  A numpy   *)
(* array is known by its identity, its position in heap, so that two names  *)
(* of one array see each other's writes; a Python list is a sequence of     *)
(* identities and is copied by value.                                       *)

MaxHeap == 6            \* number of arrays created in a run
MaxEvents == 4          \* number of clicks (Edit button, mouse events of the tools) in a run

\* The point a mouse click adds or moves a point to.
WClick == <<2, 2>>

\* The arrays stored before editing (float64, from the pipeline): the points
\* of the slice, its centroids, and one or two polylines.
WStored ==
    {<< << <<0, 0>>, <<1, 0>>, <<1, 1>> >>, << <<0, 0>>, <<1, 1>> >> >> \o ps :
        ps \in {<< << <<0, 0>>, <<1, 0>> >> >>,
                << << <<0, 0>>, <<1, 0>> >>, << <<1, 1>>, <<0, 1>>, <<0, 2>> >> >>}}

Keys == {"D", "J", "R", "A", "M", "P", "O"}

\* np.array(...) / arr.copy(): a new array.
NewArray(pts, f32) == [pts |-> pts, f32 |-> f32]

\* The values of the stored data of the level.
StoredValues ==
    [slices |-> heap[mct_slices].pts,
     ctrds |-> heap[mct_ctrds].pts,
     cleanpolys |-> [k \in DOMAIN mct_cleanpolys |-> heap[mct_cleanpolys[k]].pts]]

\* One tool object per array, or one tool object on a list of arrays.
ToolPerArray(ids) == [k \in DOMAIN ids |-> [refs |-> <<ids[k]>>]]
ToolOnList(ids) == <<[refs |-> ids]>>

IdleW ==
    /\ heap = <<>> /\ mct_slices = 0 /\ mct_ctrds = 0 /\ mct_cleanpolys = <<>>
    /\ emode = "idle" /\ polylinesTool = "draw" /\ pointsTool = "remove"
    /\ tempPolylines = <<>> /\ tempPoints = 0 /\ tempCentroids = 0
    /\ editInstance = <<>> /\ entered = <<>>

\* editMode (main_Cloud2FEM.py lines 660-688).  slices[z].copy() and
\* ctrds[z].copy() copy an array; cleanpolys[z].copy() copies the list, whose
\* items stay the arrays of cleanpolys[z].
EditMode ==
    /\ emode = "none"
    /\ entered.events < MaxEvents
    /\ entered' = [data |-> StoredValues, left |-> "editing", events |-> entered.events + 1]
    /\ \E radio \in {"points", "centroids", "polylines"} :
          /\ emode' = radio
          /\ IF radio = "polylines"
             THEN /\ polylinesTool' = "draw"
                  /\ tempPolylines' = mct_cleanpolys
                  /\ editInstance' = ToolOnList(mct_cleanpolys)
                  /\ UNCHANGED <<heap, pointsTool, tempPoints, tempCentroids>>
             ELSE /\ Len(heap) < MaxHeap
                  /\ pointsTool' = "removerect"
                  /\ heap' = Append(heap, NewArray(heap[IF radio = "points" THEN mct_slices
                                                        ELSE mct_ctrds].pts, FALSE))
                  /\ IF radio = "points"
                     THEN tempPoints' = Len(heap) + 1 /\ UNCHANGED tempCentroids
                     ELSE tempCentroids' = Len(heap) + 1 /\ UNCHANGED tempPoints
                  /\ editInstance' = ToolOnList(<<Len(heap) + 1>>)
                  /\ UNCHANGED <<polylinesTool, tempPolylines>>
    /\ UNCHANGED <<mct_slices, mct_ctrds, mct_cleanpolys>>

\* The polylines the tool objects hold when a tool is left (lines 591-603 and
\* 695-704): the arrays of the per-array tools, without the emptied ones of
\* the remove-points tool, or the list of the list tool.
RECURSIVE Concat(_)
Concat(ss) == IF ss = <<>> THEN <<>> ELSE ss[1] \o Concat(Tail(ss))

CollectPolylines ==
    IF polylinesTool \in {"addponline", "movepoint"}
    THEN Concat([k \in DOMAIN editInstance |-> editInstance[k].refs])
    ELSE IF polylinesTool = "removepoint"
    THEN Concat([k \in DOMAIN editInstance |->
                    IF heap[editInstance[k].refs[1]].pts # <<>>
                    THEN editInstance[k].refs ELSE <<>>])
    ELSE IF editInstance = <<>> THEN <<>> ELSE editInstance[Len(editInstance)].refs

\* AddPointOnLine.start (plot2D.py line 490): pll.astype(np.float32,
\* copy=False) is the array itself when it is float32 and a new array else.
\* The identities after start, the new arrays being appended to h.
RECURSIVE AsFloat32(_, _)
AsFloat32(ids, h) ==
    IF ids = <<>> THEN [ids |-> <<>>, heap |-> h]
    ELSE IF h[ids[1]].f32
    THEN LET r == AsFloat32(Tail(ids), h) IN [ids |-> <<ids[1]>> \o r.ids, heap |-> r.heap]
    ELSE LET r == AsFloat32(Tail(ids), Append(h, NewArray(h[ids[1]].pts, TRUE)))
         IN  [ids |-> <<Len(h) + 1>> \o r.ids, heap |-> r.heap]

\* keyPressEvent (main_Cloud2FEM.py lines 580-657) in edit mode: the data of
\* the tool left is taken over and the tool of the key is started.
KeyPress ==
    /\ emode \in {"points", "centroids", "polylines"}
    /\ \E key \in Keys :
          IF emode = "polylines"
          THEN LET tp == CollectPolylines
                   started == AsFloat32(tp, heap)
               IN  /\ tempPolylines' = tp
                   /\ polylinesTool' =
                         CASE key = "D" -> "draw" [] key = "J" -> "join"
                           [] key = "R" -> "rempoly" [] key = "A" -> "addponline"
                           [] key = "M" -> "movepoint" [] key = "P" -> "removepoint"
                           [] OTHER -> "offset"
                   /\ IF key = "A"
                      THEN /\ Len(started.heap) <= MaxHeap
                           /\ heap' = started.heap
                           /\ editInstance' = ToolPerArray(started.ids)
                      ELSE /\ editInstance' = IF key \in {"M", "P"} THEN ToolPerArray(tp)
                                              ELSE ToolOnList(tp)
                           /\ UNCHANGED heap
                   /\ UNCHANGED <<pointsTool, tempPoints, tempCentroids>>
          ELSE LET pts_b == editInstance[1].refs[1]
               IN  /\ IF emode = "points"
                      THEN tempPoints' = pts_b /\ UNCHANGED tempCentroids
                      ELSE tempCentroids' = pts_b /\ UNCHANGED tempPoints
                   /\ pointsTool' = IF key = "R" THEN "remove"
                                    ELSE IF key = "P" THEN "removerect" ELSE pointsTool
                   /\ UNCHANGED <<heap, polylinesTool, tempPolylines, editInstance>>
    /\ UNCHANGED <<mct_slices, mct_ctrds, mct_cleanpolys, emode, entered>>

\* The list tools are in use on the list plls.
ListTool(tool) ==
    /\ emode = "polylines" /\ polylinesTool = tool
    /\ editInstance # <<>>

\* The frame of a mouse event handled by a tool: only heap and editInstance
\* may change; the events of a run are counted.
ToolFrame ==
    /\ entered.events < MaxEvents
    /\ entered' = [entered EXCEPT !.events = @ + 1]
    /\ UNCHANGED <<mct_slices, mct_ctrds, mct_cleanpolys, emode, polylinesTool, pointsTool,
                   tempPolylines, tempPoints, tempCentroids>>

\* DrawPolyline.__finalize (plot2D.py lines 729-737): plls.append(newpolyline).
ToolDraw ==
    /\ ListTool("draw")
    /\ Len(heap) < MaxHeap
    /\ heap' = Append(heap, NewArray(<<WClick, <<0, 0>> >>, FALSE))
    /\ editInstance' = ToolOnList(Append(editInstance[1].refs, Len(heap) + 1))
    /\ ToolFrame

Reverse(s) == [k \in DOMAIN s |-> s[Len(s) + 1 - k]]

\* JoinPolylines.__join_polylines (lines 834-878): the two polylines clicked
\* at an end are stacked into a new array; every polyline with the points of
\* one of the two leaves the list.
ToolJoin ==
    /\ ListTool("join")
    /\ Len(heap) < MaxHeap
    /\ LET plls == editInstance[1].refs IN
       \E i \in DOMAIN plls : \E j \in DOMAIN plls \ {i} : \E fhead, shead \in BOOLEAN :
          LET a == heap[plls[i]].pts
              b == heap[plls[j]].pts
              newpolyline ==
                  IF ~fhead /\ shead THEN a \o b
                  ELSE IF ~fhead /\ ~shead THEN a \o Reverse(b)
                  ELSE IF fhead /\ shead THEN Reverse(a) \o b
                  ELSE b \o a
              rest == SelectSeq(plls, LAMBDA id : heap[id].pts \notin {a, b})
          IN  /\ heap' = Append(heap, NewArray(newpolyline, FALSE))
              /\ editInstance' = ToolOnList(Append(rest, Len(heap) + 1))
    /\ ToolFrame

\* RemovePolyline.__popPolyline (line 564): plls.pop(tomodify), one polyline
\* at least being left.
ToolRemovePolyline ==
    /\ ListTool("rempoly")
    /\ LET plls == editInstance[1].refs IN
       /\ Len(plls) >= 2
       /\ \E k \in DOMAIN plls :
             editInstance' = ToolOnList(SubSeq(plls, 1, k - 1) \o SubSeq(plls, k + 1, Len(plls)))
    /\ UNCHANGED heap
    /\ ToolFrame

\* OffsetPolyline.__offPolyline (lines 1014-1019): the offset polyline, one
\* unit above here, is a new array appended to plls.
ToolOffset ==
    /\ ListTool("offset")
    /\ Len(heap) < MaxHeap
    /\ LET plls == editInstance[1].refs IN
       \E k \in DOMAIN plls :
          LET src == heap[plls[k]].pts
              newpoly == [n \in DOMAIN src |-> <<src[n][1], src[n][2] + 1>>]
          IN  /\ heap' = Append(heap, NewArray(newpoly, FALSE))
              /\ editInstance' = ToolOnList(Append(plls, Len(heap) + 1))
    /\ ToolFrame

\* A tool with one object per array is in use; k is one of its objects.
ArrayTool(tools, k) ==
    /\ \/ emode = "polylines" /\ polylinesTool \in tools
       \/ emode \in {"points", "centroids"} /\ "removepoint" \in tools
    /\ k \in DOMAIN editInstance

\* AddPointOnLine.__addPoint (plot2D.py lines 390-415): the click is inserted
\* in a segment and the polyline is reassembled into a new float32 array.
ToolAddPoint ==
    /\ Len(heap) < MaxHeap
    /\ \E k \in DOMAIN editInstance :
          /\ ArrayTool({"addponline"}, k)
          /\ LET pll == heap[editInstance[k].refs[1]].pts IN
             \E s \in 1..(Len(pll) - 1) :
                /\ heap' = Append(heap,
                              NewArray(NoRepeats(SubSeq(pll, 1, s) \o <<WClick>>
                                                 \o SubSeq(pll, s + 1, Len(pll))), TRUE))
                /\ editInstance' = [editInstance EXCEPT ![k] = [refs |-> <<Len(heap) + 1>>]]
    /\ ToolFrame

\* MovePoint.__finalize_moving_point (lines 244-265): the first row equal to
\* the point clicked is overwritten in the array pll itself.
ToolMovePoint ==
    /\ \E k \in DOMAIN editInstance :
          /\ ArrayTool({"movepoint"}, k)
          /\ LET id == editInstance[k].refs[1]
                 pll == heap[id].pts
             IN  \E i \in DOMAIN pll :
                    LET first == CHOOSE n \in DOMAIN pll :
                                     pll[n] = pll[i] /\ \A l \in 1..(n - 1) : pll[l] # pll[i]
                    IN  heap' = [heap EXCEPT ![id].pts[first] = WClick]
    /\ UNCHANGED editInstance
    /\ ToolFrame

\* RemovePointsClick / RemovePointsRect (lines 55 and 120): np.delete gives a
\* new array without the rows selected, here the rows equal to one point.
ToolRemovePoints ==
    /\ Len(heap) < MaxHeap
    /\ \E k \in DOMAIN editInstance :
          /\ ArrayTool({"removepoint"}, k)
          /\ LET pts_b == heap[editInstance[k].refs[1]] IN
             \E i \in DOMAIN pts_b.pts :
                /\ heap' = Append(heap,
                              NewArray(SelectSeq(pts_b.pts, LAMBDA p : p # pts_b.pts[i]),
                                       pts_b.f32))
                /\ editInstance' = [editInstance EXCEPT ![k] = [refs |-> <<Len(heap) + 1>>]]
    /\ ToolFrame

\* save_changes (main_Cloud2FEM.py lines 691-740).
SaveChanges ==
    /\ emode \in {"points", "centroids", "polylines"}
    /\ IF emode = "polylines"
       THEN /\ tempPolylines' = CollectPolylines
            /\ mct_cleanpolys' = CollectPolylines
            /\ polylinesTool' = "draw"
            /\ UNCHANGED <<mct_slices, mct_ctrds, pointsTool>>
       ELSE /\ IF emode = "points"
               THEN mct_slices' = editInstance[1].refs[1] /\ UNCHANGED mct_ctrds
               ELSE mct_ctrds' = editInstance[1].refs[1] /\ UNCHANGED mct_slices
            /\ pointsTool' = "remove"
            /\ UNCHANGED <<mct_cleanpolys, polylinesTool, tempPolylines>>
    /\ emode' = "none"
    /\ entered' = [entered EXCEPT !.left = "saved"]
    /\ UNCHANGED <<heap, tempPoints, tempCentroids, editInstance>>

\* discard_changes (main_Cloud2FEM.py lines 743-769).
DiscardChanges ==
    /\ emode \in {"points", "centroids", "polylines"}
    /\ IF emode = "polylines"
       THEN /\ polylinesTool' = "draw"
            /\ tempPolylines' = <<>>
            /\ UNCHANGED <<tempPoints, tempCentroids>>
       ELSE /\ tempPoints' = 0
            /\ tempCentroids' = 0
            /\ UNCHANGED <<polylinesTool, tempPolylines>>
    /\ emode' = "none"
    /\ entered' = [entered EXCEPT !.left = "discarded"]
    /\ UNCHANGED <<heap, mct_slices, mct_ctrds, mct_cleanpolys, pointsTool, editInstance>>

\* C26: after edit mode is entered on a level and left by discard_changes,
\* whatever tools were used, the stored points, centroids and polylines of
\* the level have the values they had when edit mode was entered.
C26_DiscardRestores ==
    (emode = "none" /\ entered.left = "discarded") => StoredValues = entered.data

----------------------------------------------------------------------------
(* Specifications, one per function.                                       *)

InitZ ==
    /\ zargs \in ZArgs /\ zpc = "call" /\ zout = NoOut
    /\ IdleS /\ IdleC /\ IdleP /\ IdleG /\ IdleM /\ IdleE /\ IdleW

NextZ == MakeZcoords /\ UNCHANGED <<varsS, varsC, varsP, varsG, varsM, varsE, varsW>>

SpecZ == InitZ /\ [][NextZ]_vars

InitS ==
    /\ sargs \in SArgs
    /\ spc = "loop"
    /\ si = 0
    /\ slices = <<>>                                    \* slices = {}
    /\ invmask = [i \in DOMAIN sargs.pcl |-> TRUE]      \* np.ones(npts)
    /\ netpcl = <<>>
    /\ IdleZ /\ IdleC /\ IdleP /\ IdleG /\ IdleM /\ IdleE /\ IdleW

NextS ==
    \/ SliceLevel /\ UNCHANGED <<varsZ, varsC, varsP, varsG, varsM, varsE, varsW>>
    \/ SliceNet /\ UNCHANGED <<varsZ, varsC, varsP, varsG, varsM, varsE, varsW>>

SpecS == InitS /\ [][NextS]_vars

InitC ==
    /\ cargs \in CArgs
    /\ cpc = "calib"
    /\ ci = 0
    /\ newtol = 0
    /\ empsl = <<>>
    /\ ctrds = <<>>                                     \* ctrds = {}
    /\ cexc = "none"
    /\ cgroups = <<>>
    /\ cstarts = <<>>
    /\ IdleZ /\ IdleS /\ IdleP /\ IdleG /\ IdleM /\ IdleE /\ IdleW

NextC ==
    \/ CCalibrate /\ UNCHANGED <<varsZ, varsS, varsP, varsG, varsM, varsE, varsW>>
    \/ CTooFew /\ UNCHANGED <<varsZ, varsS, varsP, varsG, varsM, varsE, varsW>>
    \/ CEnough /\ UNCHANGED <<varsZ, varsS, varsP, varsG, varsM, varsE, varsW>>
    \/ CFirstExhausted /\ UNCHANGED <<varsZ, varsS, varsP, varsG, varsM, varsE, varsW>>
    \/ CFirst /\ UNCHANGED <<varsZ, varsS, varsP, varsG, varsM, varsE, varsW>>
    \/ CNextEmpty /\ UNCHANGED <<varsZ, varsS, varsP, varsG, varsM, varsE, varsW>>
    \/ CGrow /\ UNCHANGED <<varsZ, varsS, varsP, varsG, varsM, varsE, varsW>>

SpecC == InitC /\ [][NextC]_vars

InitP ==
    /\ pargs \in PArgs
    /\ ppc = "split"
    /\ pi = 0
    /\ polys = <<>>                                     \* polys = {}
    /\ tolpolyslen = 0
    /\ cleanpolys = <<>>
    /\ pexc = "none"
    /\ IdleZ /\ IdleS /\ IdleC /\ IdleG /\ IdleM /\ IdleE /\ IdleW

NextP ==
    \/ PSplit /\ UNCHANGED <<varsZ, varsS, varsC, varsG, varsM, varsE, varsW>>
    \/ PSplitEnd /\ UNCHANGED <<varsZ, varsS, varsC, varsG, varsM, varsE, varsW>>
    \/ PLength /\ UNCHANGED <<varsZ, varsS, varsC, varsG, varsM, varsE, varsW>>
    \/ PLengthNanRaises /\ UNCHANGED <<varsZ, varsS, varsC, varsG, varsM, varsE, varsW>>
    \/ PLengthNan /\ UNCHANGED <<varsZ, varsS, varsC, varsG, varsM, varsE, varsW>>
    \/ PClean /\ UNCHANGED <<varsZ, varsS, varsC, varsG, varsM, varsE, varsW>>
    \/ PReturn /\ UNCHANGED <<varsZ, varsS, varsC, varsG, varsM, varsE, varsW>>

SpecP == InitP /\ [][NextP]_vars

InitG ==
    /\ gargs \in GArgs
    /\ gpc = "filter"
    /\ gzcoords = gargs.zcoords
    /\ gi = 0
    /\ gj = 0
    /\ newpgon = Unbound
    /\ tolsimpl = tolsimpl0
    /\ pgons = <<>>
    /\ polygs = <<>>                                    \* polygs = {}
    /\ invalidpolygons = <<>>
    /\ gexc = "none"
    /\ IdleZ /\ IdleS /\ IdleC /\ IdleP /\ IdleM /\ IdleE /\ IdleW

NextG ==
    \/ GFilter /\ UNCHANGED <<varsZ, varsS, varsC, varsP, varsM, varsE, varsW>>
    \/ GPolyline /\ UNCHANGED <<varsZ, varsS, varsC, varsP, varsM, varsE, varsW>>
    \/ GPolylineUnbound /\ UNCHANGED <<varsZ, varsS, varsC, varsP, varsM, varsE, varsW>>
    \/ GCombine /\ UNCHANGED <<varsZ, varsS, varsC, varsP, varsM, varsE, varsW>>

SpecG == InitG /\ [][NextG]_vars

InitM ==
    /\ margs \in MArgs
    /\ mpc = "grid"
    /\ xngrid = <<>> /\ yngrid = <<>>
    /\ elemlist = <<>>                                  \* elemlist = {}
    /\ tot_elements = 0
    /\ mz = 0 /\ me = 0
    /\ nodeID = 0 /\ elID = 0
    /\ nodelist = <<>> /\ nrows = -1
    /\ elconnect = <<>> /\ z_elconnect = <<>>
    /\ ignore = <<>> /\ zignore = 0
    /\ mexc = "none"
    /\ IdleZ /\ IdleS /\ IdleC /\ IdleP /\ IdleG /\ IdleE /\ IdleW

NextM ==
    \/ MGrid /\ UNCHANGED <<varsZ, varsS, varsC, varsP, varsG, varsE, varsW>>
    \/ MRaster /\ UNCHANGED <<varsZ, varsS, varsC, varsP, varsG, varsE, varsW>>
    \/ MRasterNoCell /\ UNCHANGED <<varsZ, varsS, varsC, varsP, varsG, varsE, varsW>>
    \/ MRasterEnd /\ UNCHANGED <<varsZ, varsS, varsC, varsP, varsG, varsE, varsW>>
    \/ MElement /\ UNCHANGED <<varsZ, varsS, varsC, varsP, varsG, varsE, varsW>>
    \/ MLevelEnd /\ UNCHANGED <<varsZ, varsS, varsC, varsP, varsG, varsE, varsW>>
    \/ MReturn /\ UNCHANGED <<varsZ, varsS, varsC, varsP, varsG, varsE, varsW>>

SpecM == InitM /\ [][NextM]_vars

InitE ==
    /\ eargs \in EArgs
    /\ epc = "open"
    /\ ei = 0
    /\ efile = <<>>
    /\ eread = [nodes |-> <<>>, elements |-> <<>>]
    /\ IdleZ /\ IdleS /\ IdleC /\ IdleP /\ IdleG /\ IdleM /\ IdleW

NextE ==
    \/ EOpen /\ UNCHANGED <<varsZ, varsS, varsC, varsP, varsG, varsM, varsW>>
    \/ ENode /\ UNCHANGED <<varsZ, varsS, varsC, varsP, varsG, varsM, varsW>>
    \/ ENodesEnd /\ UNCHANGED <<varsZ, varsS, varsC, varsP, varsG, varsM, varsW>>
    \/ EElem /\ UNCHANGED <<varsZ, varsS, varsC, varsP, varsG, varsM, varsW>>
    \/ EClose /\ UNCHANGED <<varsZ, varsS, varsC, varsP, varsG, varsM, varsW>>
    \/ ERead /\ UNCHANGED <<varsZ, varsS, varsC, varsP, varsG, varsM, varsW>>

SpecE == InitE /\ [][NextE]_vars

\* make_mesh with cell sizes of any sign.
InitMG ==
    /\ margs \in MGridArgs
    /\ mpc = "grid"
    /\ xngrid = <<>> /\ yngrid = <<>>
    /\ elemlist = <<>>
    /\ tot_elements = 0
    /\ mz = 0 /\ me = 0
    /\ nodeID = 0 /\ elID = 0
    /\ nodelist = <<>> /\ nrows = -1
    /\ elconnect = <<>> /\ z_elconnect = <<>>
    /\ ignore = <<>> /\ zignore = 0
    /\ mexc = "none"
    /\ IdleZ /\ IdleS /\ IdleC /\ IdleP /\ IdleG /\ IdleE /\ IdleW

NextMG ==
    \/ MGrid /\ UNCHANGED <<varsZ, varsS, varsC, varsP, varsG, varsE, varsW>>
    \/ MGridZero /\ UNCHANGED <<varsZ, varsS, varsC, varsP, varsG, varsE, varsW>>
    \/ MRaster /\ UNCHANGED <<varsZ, varsS, varsC, varsP, varsG, varsE, varsW>>
    \/ MRasterNoCell /\ UNCHANGED <<varsZ, varsS, varsC, varsP, varsG, varsE, varsW>>
    \/ MRasterEnd /\ UNCHANGED <<varsZ, varsS, varsC, varsP, varsG, varsE, varsW>>
    \/ MElement /\ UNCHANGED <<varsZ, varsS, varsC, varsP, varsG, varsE, varsW>>
    \/ MLevelEnd /\ UNCHANGED <<varsZ, varsS, varsC, varsP, varsG, varsE, varsW>>
    \/ MReturn /\ UNCHANGED <<varsZ, varsS, varsC, varsP, varsG, varsE, varsW>>

SpecMG == InitMG /\ [][NextMG]_vars

InitW ==
    /\ heap \in {[k \in DOMAIN st |-> NewArray(st[k], FALSE)] : st \in WStored}
    /\ mct_slices = 1
    /\ mct_ctrds = 2
    /\ mct_cleanpolys = [k \in 1..(Len(heap) - 2) |-> k + 2]
    /\ emode = "none" /\ polylinesTool = "draw" /\ pointsTool = "remove"
    /\ tempPolylines = <<>> /\ tempPoints = 0 /\ tempCentroids = 0
    /\ editInstance = <<>>
    /\ entered = [data |-> StoredValues, left |-> "never", events |-> 0]
    /\ IdleZ /\ IdleS /\ IdleC /\ IdleP /\ IdleG /\ IdleM /\ IdleE

NextW ==
    \/ EditMode /\ UNCHANGED <<varsZ, varsS, varsC, varsP, varsG, varsM, varsE>>
    \/ KeyPress /\ UNCHANGED <<varsZ, varsS, varsC, varsP, varsG, varsM, varsE>>
    \/ ToolDraw /\ UNCHANGED <<varsZ, varsS, varsC, varsP, varsG, varsM, varsE>>
    \/ ToolJoin /\ UNCHANGED <<varsZ, varsS, varsC, varsP, varsG, varsM, varsE>>
    \/ ToolRemovePolyline /\ UNCHANGED <<varsZ, varsS, varsC, varsP, varsG, varsM, varsE>>
    \/ ToolOffset /\ UNCHANGED <<varsZ, varsS, varsC, varsP, varsG, varsM, varsE>>
    \/ ToolAddPoint /\ UNCHANGED <<varsZ, varsS, varsC, varsP, varsG, varsM, varsE>>
    \/ ToolMovePoint /\ UNCHANGED <<varsZ, varsS, varsC, varsP, varsG, varsM, varsE>>
    \/ ToolRemovePoints /\ UNCHANGED <<varsZ, varsS, varsC, varsP, varsG, varsM, varsE>>
    \/ SaveChanges /\ UNCHANGED <<varsZ, varsS, varsC, varsP, varsG, varsM, varsE>>
    \/ DiscardChanges /\ UNCHANGED <<varsZ, varsS, varsC, varsP, varsG, varsM, varsE>>

SpecW == InitW /\ [][NextW]_vars

\* The four handlers in a row, on slices that all have fewer than tolsl
\* points.
InitA ==
    /\ cargs \in CShortArgs
    /\ cpc = "calib"
    /\ ci = 0
    /\ newtol = 0
    /\ empsl = <<>>
    /\ ctrds = <<>>
    /\ cexc = "none"
    /\ cgroups = <<>>
    /\ cstarts = <<>>
    /\ IdleZ /\ IdleS /\ IdleP /\ IdleG /\ IdleM /\ IdleE /\ IdleW

NextA ==
    \/ CCalibrate /\ UNCHANGED <<varsZ, varsS, varsP, varsG, varsM, varsE, varsW>>
    \/ CTooFew /\ UNCHANGED <<varsZ, varsS, varsP, varsG, varsM, varsE, varsW>>
    \/ GenPolylines /\ UNCHANGED <<varsZ, varsS, varsC, varsG, varsM, varsE, varsW>>
    \/ PSplit /\ UNCHANGED <<varsZ, varsS, varsC, varsG, varsM, varsE, varsW>>
    \/ PSplitEnd /\ UNCHANGED <<varsZ, varsS, varsC, varsG, varsM, varsE, varsW>>
    \/ PLengthNanRaises /\ UNCHANGED <<varsZ, varsS, varsC, varsG, varsM, varsE, varsW>>
    \/ PLengthNan /\ UNCHANGED <<varsZ, varsS, varsC, varsG, varsM, varsE, varsW>>
    \/ PClean /\ UNCHANGED <<varsZ, varsS, varsC, varsG, varsM, varsE, varsW>>
    \/ PReturn /\ UNCHANGED <<varsZ, varsS, varsC, varsG, varsM, varsE, varsW>>
    \/ GenPolygons /\ UNCHANGED <<varsZ, varsS, varsC, varsP, varsM, varsE, varsW>>
    \/ GFilter /\ UNCHANGED <<varsZ, varsS, varsC, varsP, varsM, varsE, varsW>>
    \/ GenMesh /\ UNCHANGED <<varsZ, varsS, varsC, varsP, varsG, varsE, varsW>>
    \/ MGrid /\ UNCHANGED <<varsZ, varsS, varsC, varsP, varsG, varsE, varsW>>
    \/ MRasterNoKey /\ UNCHANGED <<varsZ, varsS, varsC, varsP, varsG, varsE, varsW>>

SpecA == InitA /\ [][NextA]_vars

\* genpolygons_clicked, then genmesh_clicked.
NextGM ==
    \/ GFilter /\ UNCHANGED <<varsZ, varsS, varsC, varsP, varsM, varsE, varsW>>
    \/ GPolyline /\ UNCHANGED <<varsZ, varsS, varsC, varsP, varsM, varsE, varsW>>
    \/ GPolylineUnbound /\ UNCHANGED <<varsZ, varsS, varsC, varsP, varsM, varsE, varsW>>
    \/ GCombine /\ UNCHANGED <<varsZ, varsS, varsC, varsP, varsM, varsE, varsW>>
    \/ GenMesh /\ UNCHANGED <<varsZ, varsS, varsC, varsP, varsG, varsE, varsW>>
    \/ MGrid /\ UNCHANGED <<varsZ, varsS, varsC, varsP, varsG, varsE, varsW>>
    \/ MRaster /\ UNCHANGED <<varsZ, varsS, varsC, varsP, varsG, varsE, varsW>>
    \/ MRasterNoCell /\ UNCHANGED <<varsZ, varsS, varsC, varsP, varsG, varsE, varsW>>
    \/ MRasterNoKey /\ UNCHANGED <<varsZ, varsS, varsC, varsP, varsG, varsE, varsW>>
    \/ MRasterEnd /\ UNCHANGED <<varsZ, varsS, varsC, varsP, varsG, varsE, varsW>>
    \/ MElement /\ UNCHANGED <<varsZ, varsS, varsC, varsP, varsG, varsE, varsW>>
    \/ MLevelEnd /\ UNCHANGED <<varsZ, varsS, varsC, varsP, varsG, varsE, varsW>>
    \/ MReturn /\ UNCHANGED <<varsZ, varsS, varsC, varsP, varsG, varsE, varsW>>

SpecGM == InitG /\ [][NextGM]_vars

=============================================================================
